---------------------------- MODULE Spec2Model ----------------------------
(***************************************************************************)
(* A model of the portfolio page script (src/script.js).                   *)
(*                                                                         *)
(* Every widget of the script runs off its own listeners and timers and    *)
(* shares no state with the others, so each widget has its own             *)
(* specification: the page it describes holds that widget's elements and   *)
(* none of the other widgets' (whose initialisers then return at their     *)
(* guards). src/script.js holds two scripts, one after the other; where    *)
(* they differ in a widget, its specification starts in either.            *)
(*                                                                         *)
(*   SpecNav       scroll handler and navigation highlighting              *)
(*   SpecCarousel  testimonial carousel with autoplay and swipe            *)
(*   SpecCounter   one run of a counter animation (SpecCounterFair: with   *)
(*                 the interval's callback kept running)                   *)
(*   SpecObserver  the counter observers                                   *)
(*   SpecTyping    the typing effect (SpecTypingFair: with due timeouts    *)
(*                 run)                                                    *)
(*   SpecTheme     the theme toggle and the reload of the page             *)
(*   SpecScroll    the scroll handler of either script, the second one     *)
(*                 throttled by frame                                      *)
(*   SpecCursor    the cursor loop (SpecCursorFair: with frames delivered) *)
(*   SpecPointer   the pointer effects of either script                    *)
(*   SpecReveal    the reveal observers of either script                   *)
(*   SpecForms     the contact form, the newsletter form, notifications    *)
(*   SpecBoot      the evaluation of the script and DOMContentLoaded       *)
(*   SpecProgress  the scroll progress bar and its throttle                *)
(*   SpecMenu      the mobile navigation menu                              *)
(*   SpecFilter    the project filters                                     *)
(*   SpecPreloader the preloader                                           *)
(***************************************************************************)
EXTENDS Integers, Sequences, FiniteSets, TLC

(***************************************************************************)
(* Bounds of the model.                                                    *)
(***************************************************************************)
\* number of <section id=...> elements of the page
NumSections == 3
\* scroll offsets run over multiples of 50 up to 50 * MaxScrollSteps
MaxScrollSteps == 10
\* number of .testimonial-card elements in the track, at most
MaxCards == 3
\* number of .dot elements in the dots container, at most
MaxDots == 2
\* number of interval timers that can be live at once
MaxTimers == 3
\* the clock advances by at most TimeStep ms in one step, and never past the
\* moment a live timer is due
TimeStep == 2500
\* the rounding error a counter's running value has gathered is at most
\* MaxErr / (MaxErr + 1) of one step-th of a unit
MaxErr == 2
\* number of counter elements (.stat-number, .funfact-number) of the page
NumCounters == 2
\* number of entries one call of an observer callback gets, at most
MaxBatch == 3
\* number of clicks on the theme toggle between two loads of the page, at most
MaxToggles == 4
\* number of loads of the page, at most
MaxLoads == 3
\* number of frame callbacks the scroll handler may have pending, at most
MaxPending == 2
\* positions are kept in PxScale-ths of a pixel
PxScale == 20
\* the pointer is at 0 or at MaxMouse pixels on either axis
MaxMouse == 2
\* number of pointer events delivered to the page, at most
MaxPtrEvents == 3
\* number of ripple spans in the document at once, at most
MaxRipples == 2
\* number of items in the observed container, at most
NumItems == 2
\* number of intersecting entries the reveal observer gets, at most
MaxTriggers == 2
\* number of entries one call of the reveal observer's callback gets, at most
MaxRevBatch == 2
\* the clock of the reveal timers advances by RevTimeStep ms, or up to the
\* moment the next timeout is due
RevTimeStep == 50

\* number of submit events delivered to the two forms, at most
MaxSubmits == 3
\* the clock of the form timers advances by FormTimeStep ms, or up to the
\* moment the next timeout is due
FormTimeStep == 1000

\* number of optional elements the document lacks, at most
MaxAbsent == 2

\* number of scroll events delivered to the progress bar's listener, at most
MaxPrgScrolls == 3
\* the clock of the throttle advances by PrgTimeStep ms (one frame of a
\* 120 Hz display), or up to the moment the timeout is due
PrgTimeStep == 8

\* number of clicks and key presses delivered to the nav menu, at most
MaxMenuEvents == 6

\* number of clicks on filter buttons, at most
MaxFilterClicks == 3
\* the clock of the filter's timeouts advances by FilterTimeStep ms, or up to
\* the moment the next timeout is due
FilterTimeStep == 150

\* Math.random() yields k / RandomSteps for k in 0 .. RandomSteps - 1
RandomSteps == 4
\* the preloader's clock advances by PreTimeStep ms, or up to the moment the
\* next timer is due
PreTimeStep == 200

(***************************************************************************)
(* Program constants.                                                      *)
(***************************************************************************)
\* updateActiveNavLink: sectionTop = section.offsetTop - 100
SectionOffset == 100
\* handleScroll: classList.toggle('scrolled', scrollY > 50)
NavbarThreshold == 50
\* startAutoPlay: setInterval(..., 5000)
AutoPlayDelay == 5000
\* touchend: Math.abs(diff) > 50
SwipeThreshold == 50
\* animateCounter: steps = 50
CounterSteps == 50
\* animateFunCounter: steps = 60
FunCounterSteps == 60
\* type(): speed while typing
TypeSpeed == 100
\* type(): speed while deleting
DeleteSpeed == 50
\* type(): pause on a fully typed phrase
PauseFull == 2000
\* type(): pause on the empty text
PauseEmpty == 500
\* frame callback of handleScroll: Math.abs(scrollDelta) > 30
RippleDelta == 30
\* animObserver, sectionObserver: setTimeout(..., i * 80)
RevealDelay == 80
\* animObserver of the second script: setTimeout(..., i * 150)
RevealDelaySecond == 150
\* updateAll: lerp = 0.15, as LerpNum / LerpDen
LerpNum == 15
LerpDen == 100
\* updateAll: Math.abs(dx) < 0.5, as 1 / StopDen
StopDen == 2

\* submit handler of the contact form: setTimeout(..., 1500)
SendDelay == 1500
\* showNotification: setTimeout(() => notification.remove(), 4000)
NoteDelay == 4000

\* initScrollProgress: Utils.throttle(..., 16)
ProgressLimit == 16

\* project filter: setTimeout(() => card.style.display = 'none', 300)
HideDelay == 300

\* preloader: setInterval(..., 200)
TickDelay == 200
\* preloader: setTimeout(..., 400) once the progress is complete
LoadedDelay == 400
\* preloader: the fallback, setTimeout(..., 3000)
FallbackDelay == 3000
\* preloader: statuses.length
StatusCount == 4

VARIABLES
    \* ---- navigation / scroll handler ----
    sections,        \* document.querySelectorAll('section[id]'): offsetTop, offsetHeight, id
    navActive,       \* the nav links that carry the class 'active'
    navbarScrolled,  \* DOM.navbar carries the class 'scrolled'
    scrollY,         \* window.scrollY
    lastScrollY,     \* State.lastScrollY
    navOp,           \* the handler that ran last ("init" before any)
    \* ---- testimonial carousel ----
    cardCount,        \* cards.length
    dotCount,         \* dots.length
    currentIndex,     \* currentIndex
    trackTransform,   \* track.style.transform: <<>> (unset) or <<"-", percent>>
    dotsActive,       \* the dots (0-based) that carry the class 'active'
    autoPlayInterval, \* the handle in autoPlayInterval (0: undefined)
    timers,           \* the live interval timers: handle -> ms until the next call
    startX,           \* startX
    isDragging,       \* isDragging
    carOp,            \* the handler that ran last ("init" before any)
    carArg,           \* its argument: the dot clicked, the clientX of the touch
    \* ---- one counter animation ----
    cntKind,          \* "stat": animateCounter, "fun": animateFunCounter
    cntTarget,        \* target: [nan |-> BOOLEAN, val |-> integer]
    cntCurrent,       \* current, without its rounding error, in step-ths of a unit
    cntErr,           \* the rounding error of current, in ErrScale-ths of that
    cntText,          \* element.textContent, a sequence of characters
    cntTimerLive,     \* the interval timer has not been cleared
    \* ---- the counter observers ----
    counterClass,     \* element -> "stat" (.stat-number), "fun" (.funfact-number), "both"
    observed,         \* observer -> the elements it observes
    lastEntry,        \* observer -> element -> isIntersecting of the entry queued
                      \*   last for it: "none", "in", "out"
    animCalls,        \* observer -> element -> calls of its animate function
    \* ---- typing effect ----
    textIndex,        \* textIndex
    charIndex,        \* charIndex
    isDeleting,       \* isDeleting
    typingText,       \* DOM.typingElement.textContent, a sequence of characters
    typeDelay,        \* the delay of the pending setTimeout(type, speed) (0: none)
    typePending,      \* the number of pending setTimeout(type, speed) timeouts
    typedCount,       \* history: the phrases fully typed so far, modulo the
                      \*   number of phrases
    sawEmpty,         \* history: the text has been empty since the last phrase
                      \*   was fully typed (TRUE before the first one)
    \* ---- theme toggle ----
    themeStored,      \* localStorage['portfolio-theme']: "absent" or the string stored
    bodyLight,        \* document.body carries the class 'light-theme'
    iconHtml,         \* the fa- class #theme-icon has in the page's markup
    iconClass,        \* the fa- class #theme-icon carries now
    themeOp,          \* what happened last: "load", "click", "reload"
    themeInitial,     \* history: the persisted value when the page was first opened
    themeTrail,       \* history: bodyLight after the load and after every click since
    themePrevTrail,   \* history: themeTrail of the page load before this one
    themeLoads,       \* history: the number of loads of the page so far
    \* ---- frame-throttled scroll handler ----
    scrollVariant,    \* "direct": handleScroll does the work itself,
                      \*   "raf": it hands the work to a frame callback
    ticking,          \* ticking
    rafPending,       \* the frame callbacks handleScroll has requested that have not run
    scrollDirection,  \* State.scrollDirection
    textRipple,       \* the frame callback that ran last called triggerTextRipple
    orbOffset,        \* the offset the orbs' translateY was computed from: <<>>
                      \*   (no transform written yet) or <<scrollY>>
    \* ---- pointer effects ----
    ptrVariant,       \* "first": initMouseEffects of the first script (with the
                      \*   cursor loop), "second": initMouseEffects of the second
    isTouchDevice,    \* window.matchMedia('(pointer: coarse)').matches
    mouseX,           \* State.mouseX, in PxScale-ths of a pixel
    mouseY,           \* State.mouseY
    cursorX,          \* State.cursorX
    cursorY,          \* State.cursorY
    cursorActive,     \* cursorActive
    cursorFrames,     \* the updateAll frame callbacks requested that have not run
    cursorStyle,      \* left and top of the cursor elements: <<>> (unset) or <<x, y>>
    ptrStyle,         \* element -> what its transform (opacity for the glow) is:
                      \*   "unset", "effect" (written on a move), "rest" (on a leave)
    ripples,          \* the .ripple-effect spans in the document
    inThrottle,       \* inThrottle of the throttled hero mousemove listener
    hasGlow,          \* the .tilt-glow elements have been added to the cards
    ptrOp,            \* the handler that ran last ("init" before any)
    ptrArg,           \* clientX and clientY of the last mousemove on the window
    ptrEvents,        \* history: the pointer events delivered so far
    \* ---- reveal observers ----
    revVariant,       \* "first": the observers of the first script (animObserver,
                      \*   sectionObserver), "second": animObserver of the second
    revItems,         \* the number of items the container's querySelectorAll finds
    itemObserved,     \* the last item is itself observed (a .project-card or a
                      \*   .timeline-content inside a section)
    revClasses,       \* element -> its reveal classes; 0: the container,
                      \*   i + 1: the item with index i
    effectIndex,      \* effectIndex
    revTimers,        \* the pending timeouts in the order they were set:
                      \*   [trig, item, left (ms), cls (the classes to add), again]
    revOp,            \* what ran last: "init", "callback", "timeout", "time"
    revBatch,         \* the entries of the last callback
    revFired,         \* the timeout that ran last (<<>>: none yet, else <<timer>>)
    revTriggers,      \* history: the intersecting entries processed so far
    \* ---- contact form, newsletter form, notification ----
    hasSubmitBtn,     \* the contact form holds a button[type="submit"]
    hasNewsInput,     \* the newsletter form holds an input
    fields,           \* the values of the contact form's name, email and message
    newsEmail,        \* the value of the newsletter form's input
    btnDisabled,      \* submitBtn.disabled
    btnLabel,         \* submitBtn.innerHTML: "original" or "sending"
    sendTimer,        \* the pending timeout of a submission: <<>> or
                      \*   <<[left (ms), originalText]>>
    note,             \* the .notification elements in the document, in document
                      \*   order: [id, type]
    noteTimers,       \* the pending removal timeouts: notification id -> ms left
    noteSeq,          \* the notifications created so far (the id of the last one)
    frmFault,         \* a handler has thrown a TypeError
    frmOp,            \* the handler that ran last ("init" before any)
    frmSubmits,       \* history: the submit events so far
    \* ---- page initialisation (first script) ----
    bootReady,        \* document.readyState when the script is evaluated: "loading" or
                      \*   "interactive" (DOMContentLoaded follows in both)
    bootTouch,        \* matchMedia('(pointer: coarse)').matches
    lenisOutcome,     \* "undefined": Lenis is not loaded, "throws": new Lenis throws,
                      \*   "ok": it constructs
    present,          \* the optional elements the document holds
    todo,             \* the calls still to make, in order: [fn, handler]; an
                      \*   exception drops the remaining calls of its handler
    readyHooks,       \* the DOMContentLoaded listeners, in the order they were added
    domReady,         \* DOMContentLoaded has been dispatched
    ran,              \* the initializers called so far, in order
    initDone,         \* the initializers that got past their guard and did their work
    listeners,        \* the initializers that added an event listener or an observer
    bootTimers,       \* the initializers that started a timer
    lenisSet,         \* State.lenis is not null
    lenisLoop,        \* the frame loop of initLenis has been requested
    bootWarnings,     \* the calls of console.warn
    bootFault,        \* an exception left a handler or the script
    jsLoaded,         \* document.body carries the class 'js-loaded'
    \* ---- scroll progress bar ----
    prgScrollY,       \* window.scrollY, as the progress bar's listener sees it
    prgScale,         \* the scaleX of the progress bar, a fraction [num, den]
    prgInThrottle,    \* inThrottle of the throttled scroll listener
    prgTimer,         \* ms until the throttle's timeout runs (0 and not throttled: none)
    prgOp,            \* what ran last: "init", "scroll", "dropped", "timeout", "time"
    prgScrolls,       \* history: the scroll events so far
    prgInvoked,       \* history: the calls of the wrapped function so far
    \* ---- mobile nav menu (first script) ----
    hasNavToggle,     \* the document holds #nav-toggle
    hasNavMenu,       \* the document holds #nav-menu
    toggleActive,     \* DOM.navToggle carries the class 'active'
    menuActive,       \* DOM.navMenu carries the class 'active'
    mnuOp,            \* the event handled last ("init" before any)
    mnuEvents,        \* history: the events so far
    \* ---- project filters ----
    fltActive,        \* the .filter-btn elements that carry the class 'active'
    cardDisplay,      \* card -> its style.display: "" (unset), "block" or "none"
    cardOpacity,      \* card -> its style.opacity: "" (unset), "0" or "1"
    hideTimers,       \* the pending timeouts that hide a card, in the order they were
                      \*   set: [card, left (ms)]
    showFrames,       \* the cards with a frame callback pending that shows them
    fltLast,          \* the filter of the button clicked last ("none" before any)
    fltOp,            \* what ran last: "init", "click", "timeout", "frame", "time"
    fltClicks,        \* history: the clicks on filter buttons so far
    \* ---- preloader ----
    hasPreloader,     \* the page has #preloader
    hasProgressBar,   \* the page has #preloader-progress
    hasStatusText,    \* the page has #preloader-status
    plStarted,        \* runPreloader has run
    plProgress,       \* runPreloader's progress, in units of 1/RandomSteps percent
    plWidth,          \* the progress bar's style.width in the same units, -1: unset
    plStatus,         \* index of the status shown in #preloader-status, -1: none
    plInterval,       \* ms until the interval's next tick, -1: no interval is live
    plLoadTimer,      \* ms until the timeout of the finished progress, -1: none
    plFallback,       \* ms until the fallback timeout, -1: none
    plLoaded,         \* #preloader carries the class 'loaded'
    plOverflow,       \* document.body.style.overflow
    plElapsed,        \* history: ms since runPreloader ran
    plOp              \* what ran last: "init", "run", "tick", "loaded", "fallback", "time"

navVars == <<sections, navActive, navbarScrolled, scrollY, lastScrollY, navOp>>

carVars == <<cardCount, dotCount, currentIndex, trackTransform, dotsActive,
             autoPlayInterval, timers, startX, isDragging, carOp, carArg>>

cntVars == <<cntKind, cntTarget, cntCurrent, cntErr, cntText, cntTimerLive>>

obsVars == <<counterClass, observed, lastEntry, animCalls>>

typVars == <<textIndex, charIndex, isDeleting, typingText, typeDelay, typePending, typedCount,
             sawEmpty>>

thmVars == <<themeStored, bodyLight, iconHtml, iconClass, themeOp, themeInitial,
             themeTrail, themePrevTrail, themeLoads>>

rafVars == <<scrollVariant, ticking, rafPending, scrollDirection, textRipple, orbOffset>>

ptrVars == <<ptrVariant, isTouchDevice, mouseX, mouseY, cursorX, cursorY, cursorActive,
             cursorFrames, cursorStyle, ptrStyle, ripples, inThrottle, hasGlow,
             ptrOp, ptrArg, ptrEvents>>

revVars == <<revVariant, revItems, itemObserved, revClasses, effectIndex, revTimers,
             revOp, revBatch, revFired, revTriggers>>

frmVars == <<hasSubmitBtn, hasNewsInput, fields, newsEmail, btnDisabled, btnLabel, sendTimer, note, noteTimers, noteSeq, frmFault, frmOp, frmSubmits>>

bootVars == <<bootReady, bootTouch, lenisOutcome, present, todo, readyHooks, domReady, ran, initDone, listeners, bootTimers, lenisSet, lenisLoop, bootWarnings, bootFault, jsLoaded>>

prgVars == <<prgScrollY, prgScale, prgInThrottle, prgTimer, prgOp, prgScrolls, prgInvoked>>

mnuVars == <<hasNavToggle, hasNavMenu, toggleActive, menuActive, mnuOp, mnuEvents>>

fltVars == <<fltActive, cardDisplay, cardOpacity, hideTimers, showFrames, fltLast, fltOp, fltClicks>>

plVars == <<hasPreloader, hasProgressBar, hasStatusText, plStarted, plProgress, plWidth, plStatus, plInterval, plLoadTimer, plFallback, plLoaded, plOverflow, plElapsed, plOp>>

vars == <<navVars, carVars, cntVars, obsVars, typVars, thmVars, rafVars, ptrVars, revVars, frmVars, bootVars, prgVars, mnuVars, fltVars, plVars>>

\* what a handler of one widget leaves alone: the other widgets
notNavVars == <<carVars, cntVars, obsVars, typVars, thmVars, rafVars, ptrVars, revVars, frmVars, bootVars, prgVars, mnuVars, fltVars, plVars>>
\* ... and with the frame-throttled handler, which writes its own state too
notScrVars == <<carVars, cntVars, obsVars, typVars, thmVars, ptrVars, revVars, frmVars, bootVars, prgVars, mnuVars, fltVars, plVars>>
notCarVars == <<navVars, cntVars, obsVars, typVars, thmVars, rafVars, ptrVars, revVars, frmVars, bootVars, prgVars, mnuVars, fltVars, plVars>>
notCntVars == <<navVars, carVars, obsVars, typVars, thmVars, rafVars, ptrVars, revVars, frmVars, bootVars, prgVars, mnuVars, fltVars, plVars>>
notObsVars == <<navVars, carVars, cntVars, typVars, thmVars, rafVars, ptrVars, revVars, frmVars, bootVars, prgVars, mnuVars, fltVars, plVars>>
notTypVars == <<navVars, carVars, cntVars, obsVars, thmVars, rafVars, ptrVars, revVars, frmVars, bootVars, prgVars, mnuVars, fltVars, plVars>>
notThmVars == <<navVars, carVars, cntVars, obsVars, typVars, rafVars, ptrVars, revVars, frmVars, bootVars, prgVars, mnuVars, fltVars, plVars>>
notPtrVars == <<navVars, carVars, cntVars, obsVars, typVars, thmVars, rafVars, revVars, frmVars, bootVars, prgVars, mnuVars, fltVars, plVars>>
notRevVars == <<navVars, carVars, cntVars, obsVars, typVars, thmVars, rafVars, ptrVars, frmVars, bootVars, prgVars, mnuVars, fltVars, plVars>>
notFrmVars == <<navVars, carVars, cntVars, obsVars, typVars, thmVars, rafVars, ptrVars, revVars, bootVars, prgVars, mnuVars, fltVars, plVars>>
notBootVars == <<navVars, carVars, cntVars, obsVars, typVars, thmVars, rafVars, ptrVars, revVars, frmVars, prgVars, mnuVars, fltVars, plVars>>
notPrgVars == <<navVars, carVars, cntVars, obsVars, typVars, thmVars, rafVars, ptrVars, revVars, frmVars, bootVars, mnuVars, fltVars, plVars>>
notMnuVars == <<navVars, carVars, cntVars, obsVars, typVars, thmVars, rafVars, ptrVars, revVars, frmVars, bootVars, prgVars, fltVars, plVars>>
notFltVars == <<navVars, carVars, cntVars, obsVars, typVars, thmVars, rafVars, ptrVars, revVars, frmVars, bootVars, prgVars, mnuVars, plVars>>
notPlVars == <<navVars, carVars, cntVars, obsVars, typVars, thmVars, rafVars, ptrVars, revVars, frmVars, bootVars, prgVars, mnuVars, fltVars>>

(***************************************************************************)
(* NAVIGATION HIGHLIGHTING                                                 *)
(***************************************************************************)

SectionIds == 1..NumSections

\* The value of a link's href attribute: '#' followed by an id. Id 0 is the
\* id of no section.
Href(id) == <<"#", id>>

\* DOM.navLinks: one link per section, a second link to the first section,
\* and a link whose href names no section.
Links == 1..(NumSections + 2)

linkHref(l) ==
    IF l <= NumSections THEN Href(l)
    ELSE IF l = NumSections + 1 THEN Href(1)
    ELSE Href(0)

\* The offsets a section may have.
Tops == {0, 150, 300}
Heights == {100, 300}

\* The scroll offsets of the model: the multiples of 50 from -100 on (an
\* overscrolled page reports a negative offset), with the two neighbours of
\* the navbar threshold.
ScrollOffsets ==
    {50 * k : k \in -2..MaxScrollSteps} \cup {NavbarThreshold - 1, NavbarThreshold + 1}

\* link.classList.toggle('active', cond) on every link
ToggleAllLinks(active, sectionId) ==
    (active \cup {l \in Links : linkHref(l) = Href(sectionId)})
        \ {l \in Links : linkHref(l) # Href(sectionId)}

\* the test of updateActiveNavLink on one section
SectionContains(section, y) ==
    LET sectionHeight == section.offsetHeight
        sectionTop == section.offsetTop - SectionOffset
    IN  y > sectionTop /\ y <= sectionTop + sectionHeight

\* sections.forEach(...) from section i on
RECURSIVE NavLinkLoop(_, _, _)
NavLinkLoop(i, active, y) ==
    IF i > Len(sections) THEN active
    ELSE IF SectionContains(sections[i], y)
         THEN NavLinkLoop(i + 1, ToggleAllLinks(active, sections[i].id), y)
         ELSE NavLinkLoop(i + 1, active, y)

\* a first-match-wins loop
RECURSIVE NavLinkLoopFirst(_, _, _)
NavLinkLoopFirst(i, active, y) ==
    IF i > Len(sections) THEN active
    ELSE IF SectionContains(sections[i], y)
         THEN ToggleAllLinks(active, sections[i].id)
         ELSE NavLinkLoopFirst(i + 1, active, y)

UpdateActiveNavLinkMutFirst(active, y) == NavLinkLoopFirst(1, active, y)

\* a loop that clears the highlight before it looks for a match
UpdateActiveNavLinkMutClear(active, y) == NavLinkLoop(1, {}, y)

UpdateActiveNavLink(active, y) == NavLinkLoop(1, active, y)

InitNav ==
    /\ sections \in {s \in [SectionIds -> [offsetTop : Tops, offsetHeight : Heights, id : SectionIds]] :
                        \A i \in SectionIds : s[i].id = i}
    /\ navActive \in {{}} \cup {{l} : l \in Links}
    /\ navbarScrolled = FALSE
    /\ scrollY = 0
    /\ lastScrollY = 0
    /\ navOp = "init"

\* a toggle that sets the class at the threshold itself
NavbarScrolledAtMutInclusive(y) == y >= NavbarThreshold

\* DOM.navbar.classList.toggle('scrolled', scrollY > 50): the class after it
NavbarScrolledAt(y) == y > NavbarThreshold

\* The page is scrolled to offset y and the scroll listener handleScroll runs.
HandleScroll(y) ==
    /\ scrollY' = y
    /\ navbarScrolled' = NavbarScrolledAt(y)
    /\ navActive' = UpdateActiveNavLink(navActive, y)
    /\ lastScrollY' = y
    /\ navOp' = "scroll"
    /\ UNCHANGED sections
    /\ UNCHANGED notNavVars

(***************************************************************************)
(* TESTIMONIAL CAROUSEL                                                    *)
(***************************************************************************)

Dots == 0..(dotCount - 1)

\* the clientX values a touch may report
TouchXs == {0, 50, 101, 110}

Abs(n) == IF n < 0 THEN -n ELSE n

Min(a, b) == IF a < b THEN a ELSE b

\* goToSlide that clamps at the first card instead of wrapping to the last
GoToSlideIndexMutClamp(index) ==
    LET i1 == IF index < 0 THEN 0 ELSE index
        i2 == IF i1 >= cardCount THEN 0 ELSE i1
    IN  i2

\* goToSlide whose upper test is off by one
GoToSlideIndexMutOffByOne(index) ==
    LET i1 == IF index < 0 THEN cardCount - 1 ELSE index
        i2 == IF i1 > cardCount THEN 0 ELSE i1
    IN  i2

\* the index goToSlide stores for the index it is called with
GoToSlideIndex(index) ==
    LET i1 == IF index < 0 THEN cardCount - 1 ELSE index
        i2 == IF i1 >= cardCount THEN 0 ELSE i1
    IN  i2

\* goToSlide(index)
GoToSlide(index) ==
    /\ currentIndex' = GoToSlideIndex(index)
    /\ trackTransform' = <<"-", GoToSlideIndex(index) * 100>>
    /\ dotsActive' = {i \in Dots : i = GoToSlideIndex(index)}

\* clearInterval(handle): a handle of no live timer clears nothing
ClearInterval(t, handle) == [id \in DOMAIN t \ {handle} |-> t[id]]

\* setInterval hands out a handle that names no live timer. Handles are never
\* reused by the browser; the only handle the carousel keeps is
\* autoPlayInterval, which every caller of setInterval overwrites with the new
\* handle, so reusing the handle of a cleared timer is not observable.
CanSetInterval(t) == \E id \in 1..MaxTimers : id \notin DOMAIN t

NewHandle(t) == CHOOSE id \in 1..MaxTimers :
                    /\ id \notin DOMAIN t
                    /\ \A j \in 1..MaxTimers : j \notin DOMAIN t => id <= j

SetInterval(t, delay) == [id \in DOMAIN t \cup {NewHandle(t)} |->
                            IF id = NewHandle(t) THEN delay ELSE t[id]]

\* stopAutoPlay()
StopAutoPlay(t) == ClearInterval(t, autoPlayInterval)

\* startAutoPlay() on the timers t
StartAutoPlay(t) ==
    /\ CanSetInterval(t)
    /\ autoPlayInterval' = NewHandle(t)
    /\ timers' = SetInterval(t, AutoPlayDelay)

InitCarousel ==
    /\ cardCount \in 0..MaxCards
    /\ dotCount \in 0..MaxDots
    /\ currentIndex = 0
    /\ trackTransform = <<>>
    /\ dotsActive \in SUBSET Dots
    /\ autoPlayInterval = 1
    /\ timers = [id \in {1} |-> AutoPlayDelay]
    /\ startX = 0
    /\ isDragging = FALSE
    /\ carOp = "init"
    /\ carArg = 0

\* the page has no carousel: initTestimonialsSlider returned at its guard
NoCarousel ==
    /\ cardCount = 0
    /\ dotCount = 0
    /\ currentIndex = 0
    /\ trackTransform = <<>>
    /\ dotsActive = {}
    /\ autoPlayInterval = 0
    /\ timers = <<>>
    /\ startX = 0
    /\ isDragging = FALSE
    /\ carOp = "init"
    /\ carArg = 0

\* click on #testimonial-prev
ClickPrev ==
    /\ GoToSlide(currentIndex - 1)
    /\ StartAutoPlay(StopAutoPlay(timers))
    /\ carOp' = "prev"
    /\ carArg' = 0
    /\ UNCHANGED <<cardCount, dotCount, startX, isDragging>>
    /\ UNCHANGED notCarVars

\* click on #testimonial-next
ClickNext ==
    /\ GoToSlide(currentIndex + 1)
    /\ StartAutoPlay(StopAutoPlay(timers))
    /\ carOp' = "next"
    /\ carArg' = 0
    /\ UNCHANGED <<cardCount, dotCount, startX, isDragging>>
    /\ UNCHANGED notCarVars

\* click on dot i
ClickDot(i) ==
    /\ GoToSlide(i)
    /\ StartAutoPlay(StopAutoPlay(timers))
    /\ carOp' = "dot"
    /\ carArg' = i
    /\ UNCHANGED <<cardCount, dotCount, startX, isDragging>>
    /\ UNCHANGED notCarVars

\* a swipe test that lets a drag of exactly the threshold through
IsSwipeMutInclusive(diff) == Abs(diff) >= SwipeThreshold

\* touchend: Math.abs(diff) > 50
IsSwipe(diff) == Abs(diff) > SwipeThreshold

\* touchstart on the track at clientX x
TouchStart(x) ==
    /\ startX' = x
    /\ isDragging' = TRUE
    /\ timers' = StopAutoPlay(timers)
    /\ carOp' = "touchstart"
    /\ carArg' = x
    /\ UNCHANGED <<cardCount, dotCount, currentIndex, trackTransform, dotsActive,
                   autoPlayInterval>>
    /\ UNCHANGED notCarVars

\* touchend on the track at clientX x
TouchEnd(x) ==
    /\ carOp' = "touchend"
    /\ carArg' = x
    /\ IF ~isDragging
       THEN UNCHANGED <<currentIndex, trackTransform, dotsActive, isDragging,
                        autoPlayInterval, timers>>
       ELSE LET diff == startX - x
            IN  /\ IF IsSwipe(diff)
                      THEN GoToSlide(IF diff > 0 THEN currentIndex + 1 ELSE currentIndex - 1)
                      ELSE UNCHANGED <<currentIndex, trackTransform, dotsActive>>
                /\ isDragging' = FALSE
                /\ StartAutoPlay(timers)
    /\ UNCHANGED <<cardCount, dotCount, startX>>
    /\ UNCHANGED notCarVars

\* the interval timer with handle id is due and its callback runs
AutoPlayTick(id) ==
    /\ id \in DOMAIN timers
    /\ timers[id] = 0
    /\ GoToSlide(currentIndex + 1)
    /\ timers' = [timers EXCEPT ![id] = AutoPlayDelay]
    /\ carOp' = "autoplay"
    /\ carArg' = 0
    /\ UNCHANGED <<cardCount, dotCount, autoPlayInterval, startX, isDragging>>
    /\ UNCHANGED notCarVars

\* time passes: no timer is due, and the clock moves on to the next moment a
\* timer is due or by TimeStep, whichever is sooner
TimePasses ==
    /\ DOMAIN timers # {}
    /\ \A id \in DOMAIN timers : timers[id] > 0
    /\ LET soonest == CHOOSE d \in {timers[id] : id \in DOMAIN timers} :
                          \A id \in DOMAIN timers : d <= timers[id]
           d == Min(TimeStep, soonest)
       IN  timers' = [id \in DOMAIN timers |-> timers[id] - d]
    /\ carOp' = "time"
    /\ carArg' = 0
    /\ UNCHANGED <<cardCount, dotCount, currentIndex, trackTransform, dotsActive,
                   autoPlayInterval, startX, isDragging>>
    /\ UNCHANGED notCarVars

(***************************************************************************)
(* COUNTER ANIMATION                                                       *)
(*                                                                         *)
(* current is a double. It is kept here as the exact sum of the increments *)
(* (cntCurrent, in step-ths of a unit: k additions of target/steps give    *)
(* k * target) and the rounding error the additions have gathered (cntErr, *)
(* in ErrScale-ths of a step-th). Each addition may round down, not at all *)
(* or up; the gathered error stays below one step-th of a unit, far above  *)
(* what 61 additions of doubles can gather. Adding an integer increment is *)
(* exact, and so are the first addition and everything about NaN.          *)
(***************************************************************************)

ErrScale == MaxErr + 1

\* the targets parseInt(dataset.count) may give, NaN aside
Targets == {-3, 0, 1, 5, 50, 57, 1500}

NaN == [nan |-> TRUE, val |-> 0]

Num(n) == [nan |-> FALSE, val |-> n]

Steps(kind) == IF kind = "stat" THEN CounterSteps ELSE FunCounterSteps

DigitChars == <<"0", "1", "2", "3", "4", "5", "6", "7", "8", "9">>

\* the decimal digits of n >= 0
RECURSIVE Digits(_)
Digits(n) ==
    IF n < 10 THEN <<DigitChars[n + 1]>>
    ELSE Append(Digits(n \div 10), DigitChars[(n % 10) + 1])

\* String(n) of an integer n
NumberToString(n) == IF n < 0 THEN <<"-">> \o Digits(-n) ELSE Digits(n)

\* digits with a separator before every group of three (the en-US locale)
RECURSIVE Grouped(_)
Grouped(n) ==
    IF n < 1000 THEN Digits(n)
    ELSE LET low == n % 1000
             pad == IF low < 10 THEN <<"0", "0">> ELSE IF low < 100 THEN <<"0">> ELSE <<>>
         IN  Grouped(n \div 1000) \o <<",">> \o pad \o Digits(low)

\* n.toLocaleString() of an integer n
ToLocaleString(n) == IF n < 0 THEN <<"-">> \o Grouped(-n) ELSE Grouped(n)

NaNText == <<"N", "a", "N">>

\* current, in (steps * ErrScale)-ths of a unit
Scaled(cur, err) == cur * ErrScale + err

\* current >= target
CounterReached(kind, target, cur, err) ==
    /\ ~target.nan
    /\ Scaled(cur, err) >= target.val * Steps(kind) * ErrScale

\* Math.floor(current)
Floor(kind, cur, err) == Scaled(cur, err) \div (Steps(kind) * ErrScale)

\* a callback that always shows the rounded-down running value
CounterWriteMutFloor(kind, target, cur, err) ==
    IF target.nan THEN NaNText
    ELSE IF kind = "stat" THEN NumberToString(Floor(kind, cur, err))
    ELSE ToLocaleString(Floor(kind, cur, err)) \o <<"+">>

\* what the interval callback writes to element.textContent
CounterWrite(kind, target, cur, err) ==
    IF CounterReached(kind, target, cur, err)
    THEN IF kind = "stat" THEN NumberToString(target.val)
         ELSE ToLocaleString(target.val) \o <<"+">>
    ELSE IF target.nan THEN NaNText
    ELSE IF kind = "stat" THEN NumberToString(Floor(kind, cur, err))
    ELSE ToLocaleString(Floor(kind, cur, err))

\* the rounding of one addition current += increment: none on NaN, none when
\* the increment is an integer (target / steps is exact, and so are its sums),
\* none on the first addition (0 + increment is the increment)
Roundings(kind, target, cur, err) ==
    IF target.nan \/ target.val % Steps(kind) = 0 \/ cur = 0 THEN {0}
    ELSE {e \in {-1, 0, 1} : err + e \in -MaxErr..MaxErr}

\* animateCounter(element, target) or animateFunCounter(element, target) has
\* been called; the element shows the 0 of the page
InitCounter ==
    /\ cntKind \in {"stat", "fun"}
    /\ cntTarget \in {Num(n) : n \in Targets} \cup {NaN}
    /\ cntCurrent = 0
    /\ cntErr = 0
    /\ cntText = <<"0">>
    /\ cntTimerLive = TRUE

\* no counter animation has been started
NoCounter ==
    /\ cntKind = "stat"
    /\ cntTarget = Num(0)
    /\ cntCurrent = 0
    /\ cntErr = 0
    /\ cntText = <<"0">>
    /\ cntTimerLive = FALSE

\* the interval callback runs; e is the rounding of its addition
CounterTick(e) ==
    /\ cntTimerLive
    /\ e \in Roundings(cntKind, cntTarget, cntCurrent, cntErr)
    /\ LET cur == IF cntTarget.nan THEN 0 ELSE cntCurrent + cntTarget.val
           err == cntErr + e
       IN  /\ cntCurrent' = cur
           /\ cntErr' = err
           /\ cntText' = CounterWrite(cntKind, cntTarget, cur, err)
           /\ cntTimerLive' = ~CounterReached(cntKind, cntTarget, cur, err)
    /\ UNCHANGED <<cntKind, cntTarget>>
    /\ UNCHANGED notCntVars

(***************************************************************************)
(* COUNTER OBSERVERS                                                       *)
(*                                                                         *)
(* Two IntersectionObservers: "stat" (initIntersectionObservers) observes  *)
(* the .stat-number elements and calls animateCounter, "fun"               *)
(* (initFunFactCounters) observes the .funfact-number elements and calls   *)
(* animateFunCounter. The browser queues an entry for an observed target   *)
(* when its intersection state changes (and once when observation starts), *)
(* and hands the callback all entries queued since its last call: several  *)
(* renderings may pass before the callback's task runs, so one call may    *)
(* get several entries of one target, alternating between intersecting and *)
(* not. An entry is queued only for a target observed at that time; the    *)
(* array a callback got is not changed by unobserve().                     *)
(***************************************************************************)

Elements == 1..NumCounters

Observers == {"stat", "fun"}

\* the elements an observer's selector matches
Matches(o, classOf) == {e \in Elements : classOf[e] \in {o, "both"}}

Entries == [target : Elements, isIntersecting : BOOLEAN]

Batches == UNION {[1..n -> Entries] : n \in 1..MaxBatch}

EntryState(entry) == IF entry.isIntersecting THEN "in" ELSE "out"

\* the entry queued for the target of batch[i] before batch[i]
RECURSIVE PreviousState(_, _, _)
PreviousState(o, batch, i) ==
    LET before == {j \in 1..(i - 1) : batch[j].target = batch[i].target}
    IN  IF before = {} THEN lastEntry[o][batch[i].target]
        ELSE EntryState(batch[CHOOSE j \in before : \A k \in before : k <= j])

\* the entries the browser may hand to observer o in one call
CanDeliver(o, batch) ==
    \A i \in 1..Len(batch) :
        /\ batch[i].target \in observed[o]
        /\ EntryState(batch[i]) # PreviousState(o, batch, i)

\* entries.forEach(...) from entry i on, on the observer's targets obs and
\* the calls made so far
RECURSIVE CounterObserverLoop(_, _, _, _)
CounterObserverLoop(batch, i, obs, calls) ==
    IF i > Len(batch) THEN [obs |-> obs, calls |-> calls]
    ELSE IF batch[i].isIntersecting
         THEN CounterObserverLoop(batch, i + 1, obs \ {batch[i].target},
                  [calls EXCEPT ![batch[i].target] = @ + 1])
         ELSE CounterObserverLoop(batch, i + 1, obs, calls)

InitObserver ==
    /\ counterClass \in [Elements -> {"stat", "fun", "both"}]
    /\ observed = [o \in Observers |-> Matches(o, counterClass)]
    /\ lastEntry = [o \in Observers |-> [e \in Elements |-> "none"]]
    /\ animCalls = [o \in Observers |-> [e \in Elements |-> 0]]

\* the page has no counter element: the observers observe nothing
NoObserver ==
    /\ counterClass = <<>>
    /\ observed = [o \in Observers |-> {}]
    /\ lastEntry = [o \in Observers |-> <<>>]
    /\ animCalls = [o \in Observers |-> <<>>]

\* the callback of observer o runs with the entries of batch
ObserverCallback(o, batch) ==
    /\ CanDeliver(o, batch)
    /\ LET r == CounterObserverLoop(batch, 1, observed[o], animCalls[o])
       IN  /\ observed' = [observed EXCEPT ![o] = r.obs]
           /\ animCalls' = [animCalls EXCEPT ![o] = r.calls]
    /\ lastEntry' = [lastEntry EXCEPT ![o] =
           [e \in Elements |->
               LET mine == {j \in 1..Len(batch) : batch[j].target = e}
               IN  IF mine = {} THEN lastEntry[o][e]
                   ELSE EntryState(batch[CHOOSE j \in mine : \A k \in mine : k <= j])]]
    /\ UNCHANGED counterClass
    /\ UNCHANGED notObsVars

(***************************************************************************)
(* TYPING EFFECT                                                           *)
(***************************************************************************)

\* texts
Texts == <<
    <<"A", "p", "p", " ", "D", "e", "v", "e", "l", "o", "p", "e", "r">>,
    <<"F", "l", "u", "t", "t", "e", "r", " ", "E", "x", "p", "e", "r", "t">>,
    <<"K", "o", "t", "l", "i", "n", " ", "E", "n", "t", "h", "u", "s", "i", "a", "s", "t">>,
    <<"W", "e", "b", " ", "D", "e", "v", "e", "l", "o", "p", "e", "r">>,
    <<"U", "I", "/", "U", "X", " ", "D", "e", "s", "i", "g", "n", "e", "r">> >>

\* text.substring(0, n)
Substring(text, n) ==
    SubSeq(text, 1, IF n < 0 THEN 0 ELSE IF n > Len(text) THEN Len(text) ELSE n)

\* a step to the phrase after the next one
NextTextIndexMutSkip(i) == (i + 2) % Len(Texts)

\* (textIndex + 1) % texts.length
NextTextIndex(i) == (i + 1) % Len(Texts)

\* initTypingEffect has run: its first call of type() typed the first character
InitTyping ==
    /\ textIndex = 0
    /\ charIndex = 1
    /\ isDeleting = FALSE
    /\ typingText = Substring(Texts[1], 1)
    /\ typeDelay = TypeSpeed
    /\ typePending = 1
    /\ typedCount = 0
    /\ sawEmpty = TRUE

\* the page has no #typing-text: initTypingEffect returned at its guard
NoTyping ==
    /\ textIndex = 0
    /\ charIndex = 0
    /\ isDeleting = FALSE
    /\ typingText = <<>>
    /\ typeDelay = 0
    /\ typePending = 0
    /\ typedCount = 0
    /\ sawEmpty = TRUE

\* the timeouts pending after a call of type() made by a timeout: the one
\* that ran is spent, and setTimeout(type, speed) at the end of type() sets one
PendingAfterTypeMutNoRearm(n) == n - 1
PendingAfterType(n) == n - 1 + 1

\* the pending timeout is due and type() runs
Type ==
    /\ typeDelay > 0
    /\ typePending > 0
    /\ typePending' = PendingAfterType(typePending)
    /\ LET currentText == Texts[textIndex + 1]
           ci == IF isDeleting THEN charIndex - 1 ELSE charIndex + 1
       IN  /\ charIndex' = ci
           /\ typingText' = Substring(currentText, ci)
           /\ IF ~isDeleting /\ ci = Len(currentText)
              THEN /\ isDeleting' = TRUE
                   /\ typeDelay' = PauseFull
                   /\ UNCHANGED textIndex
              ELSE IF isDeleting /\ ci = 0
              THEN /\ isDeleting' = FALSE
                   /\ textIndex' = NextTextIndex(textIndex)
                   /\ typeDelay' = PauseEmpty
              ELSE /\ typeDelay' = IF isDeleting THEN DeleteSpeed ELSE TypeSpeed
                   /\ UNCHANGED <<isDeleting, textIndex>>
           /\ typedCount' = IF Substring(currentText, ci) = currentText /\ ~isDeleting
                            THEN (typedCount + 1) % Len(Texts)
                            ELSE typedCount
           /\ sawEmpty' = IF Substring(currentText, ci) = currentText /\ ~isDeleting THEN FALSE
                          ELSE IF Substring(currentText, ci) = <<>> THEN TRUE
                          ELSE sawEmpty
    /\ UNCHANGED notTypVars

(***************************************************************************)
(* THEME TOGGLE                                                            *)
(***************************************************************************)

\* what localStorage.getItem('portfolio-theme') may return when the page is
\* first opened: null, a value the script stores, or another string
StoredThemes == {"absent", "light", "dark", "auto"}

\* the fa- class of #theme-icon in the markup ("none": neither of the two)
IconClasses == {"fa-moon", "fa-sun", "none"}

\* icon.classList.replace(old, new): does nothing unless old is present
ClassListReplace(cls, old, new) == IF cls = old THEN new ELSE cls

\* a start-up test that takes the stored 'dark' for the light theme
ThemeAtLoadMutInverted(saved) == saved = "dark"

\* initThemeToggle: savedTheme === 'light'
ThemeAtLoad(saved) == saved = "light"

\* a click handler that stores the theme it has just left
StoredAfterToggleMutSwapped(isLight) == IF isLight THEN "dark" ELSE "light"

\* the click handler: the value it stores for the theme it has just set
StoredAfterToggle(isLight) == IF isLight THEN "light" ELSE "dark"

\* the body of initThemeToggle on a page that holds the toggle and its icon
LoadTheme(saved) ==
    /\ bodyLight' = ThemeAtLoad(saved)
    /\ iconClass' = IF ThemeAtLoad(saved)
                    THEN ClassListReplace(iconHtml, "fa-moon", "fa-sun")
                    ELSE iconHtml

InitTheme ==
    /\ themeStored \in StoredThemes
    /\ iconHtml \in IconClasses
    /\ bodyLight = ThemeAtLoad(themeStored)
    /\ iconClass = IF ThemeAtLoad(themeStored)
                   THEN ClassListReplace(iconHtml, "fa-moon", "fa-sun")
                   ELSE iconHtml
    /\ themeOp = "load"
    /\ themeInitial = themeStored
    /\ themeTrail = <<ThemeAtLoad(themeStored)>>
    /\ themePrevTrail = <<>>
    /\ themeLoads = 1

\* the page has no theme toggle
NoTheme ==
    /\ themeStored = "absent"
    /\ iconHtml = "none"
    /\ bodyLight = FALSE
    /\ iconClass = "none"
    /\ themeOp = "load"
    /\ themeInitial = "absent"
    /\ themeTrail = <<>>
    /\ themePrevTrail = <<>>
    /\ themeLoads = 0

\* a click on #theme-toggle
ClickThemeToggle ==
    /\ Len(themeTrail) <= MaxToggles
    /\ LET isLight == ~bodyLight
       IN  /\ bodyLight' = isLight
           /\ iconClass' = IF isLight
                           THEN ClassListReplace(iconClass, "fa-moon", "fa-sun")
                           ELSE ClassListReplace(iconClass, "fa-sun", "fa-moon")
           /\ themeStored' = StoredAfterToggle(isLight)
           /\ themeTrail' = Append(themeTrail, isLight)
    /\ themeOp' = "click"
    /\ UNCHANGED <<iconHtml, themeInitial, themePrevTrail, themeLoads>>
    /\ UNCHANGED notThmVars

\* the page is loaded again: the document is built anew from its markup and
\* initThemeToggle runs; localStorage is what outlives the page
ReloadTheme ==
    /\ themeLoads < MaxLoads
    /\ LoadTheme(themeStored)
    /\ themeOp' = "reload"
    /\ themeTrail' = <<ThemeAtLoad(themeStored)>>
    /\ themePrevTrail' = themeTrail
    /\ themeLoads' = themeLoads + 1
    /\ UNCHANGED <<themeStored, iconHtml, themeInitial>>
    /\ UNCHANGED notThmVars

(***************************************************************************)
(* FRAME-THROTTLED SCROLL HANDLER                                          *)
(*                                                                         *)
(* The second initScrollHandler: handleScroll only requests a frame        *)
(* callback, guarded by ticking, and the callback does the work with the   *)
(* offset it reads when it runs. The callback also writes transforms of    *)
(* decorative elements (update3DEffects) from the geometry of the layout;  *)
(* nothing reads them and the model does not carry them.                   *)
(***************************************************************************)

\* The layouts of a page in normal flow: sections follow each other down the
\* page.
FlowLayouts ==
    {s \in [SectionIds -> [offsetTop : Tops, offsetHeight : Heights, id : SectionIds]] :
        /\ \A i \in SectionIds : s[i].id = i
        /\ \A i \in SectionIds : s[i].offsetHeight = 300
        /\ \A i, j \in SectionIds : i < j => s[i].offsetTop <= s[j].offsetTop}

\* a handler that never requests a frame
ShouldRequestFrameMutNever(t) == FALSE

\* a handler that requests a frame whatever ticking is
ShouldRequestFrameMutAlways(t) == TRUE

\* handleScroll: if (!ticking)
ShouldRequestFrame(t) == ~t

\* State.scrollDirection = scrollDelta > 0 ? 'down' : 'up'
DirectionOf(scrollDelta) == IF scrollDelta > 0 THEN "down" ELSE "up"

InitScroll ==
    /\ sections \in FlowLayouts
    /\ navActive \in {{}, {1}}
    /\ navbarScrolled = FALSE
    /\ scrollY = 0
    /\ lastScrollY = 0
    /\ navOp = "init"
    /\ scrollVariant \in {"direct", "raf"}
    /\ ticking = FALSE
    /\ rafPending = 0
    /\ scrollDirection = "down"
    /\ textRipple = FALSE
    /\ orbOffset = <<>>

\* the page has the first initScrollHandler, and no frame is requested
NoRaf ==
    /\ scrollVariant = "direct"
    /\ ticking = FALSE
    /\ rafPending = 0
    /\ scrollDirection = "down"
    /\ textRipple = FALSE
    /\ orbOffset = <<>>

\* a scroll event on a page with the first initScrollHandler
DirectScroll(y) ==
    /\ scrollVariant = "direct"
    /\ HandleScroll(y)

\* a scroll event on a page with the second initScrollHandler: the page is
\* scrolled to offset y and handleScroll runs
RafScrollEvent(y) ==
    /\ scrollVariant = "raf"
    /\ rafPending < MaxPending
    /\ scrollY' = y
    /\ IF ShouldRequestFrame(ticking)
       THEN /\ rafPending' = rafPending + 1
            /\ ticking' = TRUE
            /\ navOp' = "event"
       ELSE /\ UNCHANGED <<rafPending, ticking>>
            /\ navOp' = "dropped"
    /\ UNCHANGED <<sections, navActive, navbarScrolled, lastScrollY>>
    /\ UNCHANGED <<scrollVariant, scrollDirection, textRipple, orbOffset>>
    /\ UNCHANGED notScrVars

\* a frame callback requested by handleScroll runs
RafFrame ==
    /\ scrollVariant = "raf"
    /\ rafPending > 0
    /\ LET scrollDelta == scrollY - lastScrollY
       IN  /\ scrollDirection' = DirectionOf(scrollDelta)
           /\ navbarScrolled' = NavbarScrolledAt(scrollY)
           /\ navActive' = UpdateActiveNavLink(navActive, scrollY)
           /\ orbOffset' = <<scrollY>>
           /\ textRipple' = (Abs(scrollDelta) > RippleDelta)
    /\ lastScrollY' = scrollY
    /\ ticking' = FALSE
    /\ rafPending' = rafPending - 1
    /\ navOp' = "frame"
    /\ UNCHANGED <<sections, scrollY, scrollVariant>>
    /\ UNCHANGED notScrVars

(***************************************************************************)
(* POINTER EFFECTS                                                         *)
(*                                                                         *)
(* Positions are kept on a grid of PxScale-ths of a pixel. The script      *)
(* computes them in doubles; a frame's easing step lands on one of the two *)
(* grid points around its exact value.                                     *)
(***************************************************************************)

\* clientX or clientY of a mousemove
MouseCoords == {0, MaxMouse * PxScale}

\* the elements the effects write a style of
PtrElements == {"cursor", "codeWindow", "btn", "projectCard", "serviceCard", "glow"}

\* the listeners initMouseEffects of the second script registers
SecondListeners == {"parallax", "magnetic", "ripple"}

\* The listener has been registered: the first script registers all of them
\* unless the pointer is coarse, the second registers its own.
Registered(listener) ==
    IF ptrVariant = "first" THEN ~isTouchDevice
    ELSE listener \in SecondListeners

FloorDiv(n, m) == n \div m

CeilDiv(n, m) == -((-n) \div m)

\* an easing step that does not move
CursorStepsMutStall(d) == {0}

\* (State.mouseX - State.cursorX) * lerp for the distance d
CursorSteps(d) == {FloorDiv(d * LerpNum, LerpDen), CeilDiv(d * LerpNum, LerpDen)}

\* Math.abs(dx) < 0.5
Within(d) == StopDen * Abs(d) < PxScale

\* a stop test satisfied by either axis
StopsLoopMutEither(dx, dy) == Within(dx) \/ Within(dy)

\* updateAll: Math.abs(dx) < 0.5 && Math.abs(dy) < 0.5
StopsLoop(dx, dy) == Within(dx) /\ Within(dy)

\* a mousemove handler that requests a frame on every event
StartsLoopMutAlways(active) == TRUE

\* the mousemove handler: if (!cursorActive)
StartsLoop(active) == ~active

InitPointer ==
    /\ ptrVariant \in {"first", "second"}
    /\ isTouchDevice \in BOOLEAN
    /\ mouseX = 0
    /\ mouseY = 0
    /\ cursorX = 0
    /\ cursorY = 0
    /\ cursorActive = FALSE
    /\ cursorFrames = 0
    /\ cursorStyle = <<>>
    /\ ptrStyle = [el \in PtrElements |-> "unset"]
    /\ ripples = 0
    /\ inThrottle = FALSE
    /\ hasGlow = (ptrVariant = "first" /\ ~isTouchDevice)
    /\ ptrOp = "init"
    /\ ptrArg = <<0, 0>>
    /\ ptrEvents = 0

\* the page gets no pointer event
NoPointer ==
    /\ ptrVariant = "first"
    /\ isTouchDevice = TRUE
    /\ mouseX = 0
    /\ mouseY = 0
    /\ cursorX = 0
    /\ cursorY = 0
    /\ cursorActive = FALSE
    /\ cursorFrames = 0
    /\ cursorStyle = <<>>
    /\ ptrStyle = [el \in PtrElements |-> "unset"]
    /\ ripples = 0
    /\ inThrottle = FALSE
    /\ hasGlow = FALSE
    /\ ptrOp = "init"
    /\ ptrArg = <<0, 0>>
    /\ ptrEvents = 0

\* what a pointer event leaves alone of the cursor loop
cursorLoopVars == <<mouseX, mouseY, cursorX, cursorY, cursorActive, cursorFrames,
                    cursorStyle, ptrArg>>

\* a pointer event is delivered to the page
PointerEvent(op) ==
    /\ ptrEvents < MaxPtrEvents
    /\ ptrEvents' = ptrEvents + 1
    /\ ptrOp' = op
    /\ UNCHANGED <<ptrVariant, isTouchDevice, hasGlow>>
    /\ UNCHANGED notPtrVars

\* a mousemove on the window, at (x, y)
MouseMove(x, y) ==
    /\ Registered("cursor")
    /\ cursorFrames < MaxPending
    /\ PointerEvent("mousemove")
    /\ ptrArg' = <<x, y>>
    /\ mouseX' = x
    /\ mouseY' = y
    /\ IF StartsLoop(cursorActive)
       THEN /\ cursorActive' = TRUE
            /\ cursorFrames' = cursorFrames + 1
       ELSE UNCHANGED <<cursorActive, cursorFrames>>
    /\ UNCHANGED <<cursorX, cursorY, cursorStyle, ptrStyle, ripples, inThrottle>>

\* a frame callback updateAll runs
CursorFrame ==
    /\ cursorFrames > 0
    /\ IF ~cursorActive
       THEN /\ cursorFrames' = cursorFrames - 1
            /\ UNCHANGED <<cursorX, cursorY, cursorStyle, cursorActive>>
       ELSE \E sx \in CursorSteps(mouseX - cursorX), sy \in CursorSteps(mouseY - cursorY) :
                /\ cursorX' = cursorX + sx
                /\ cursorY' = cursorY + sy
                /\ cursorStyle' = <<cursorX + sx, cursorY + sy>>
                /\ IF StopsLoop(mouseX - (cursorX + sx), mouseY - (cursorY + sy))
                   THEN /\ cursorActive' = FALSE
                        /\ cursorFrames' = cursorFrames - 1
                   ELSE UNCHANGED <<cursorActive, cursorFrames>>
    /\ ptrOp' = "frame"
    /\ UNCHANGED <<mouseX, mouseY, ptrArg, ptrEvents, ptrStyle, ripples, inThrottle>>
    /\ UNCHANGED <<ptrVariant, isTouchDevice, hasGlow>>
    /\ UNCHANGED notPtrVars

\* element.style.transform = value (for the glow: style.opacity)
WriteStyle(el, value) == ptrStyle' = [ptrStyle EXCEPT ![el] = value]

\* a mouseover on a link, a button or a card: the cursor is scaled up
MouseOver ==
    /\ Registered("hover")
    /\ PointerEvent("mouseover")
    /\ WriteStyle("cursor", "effect")
    /\ UNCHANGED <<cursorLoopVars, ripples, inThrottle>>

\* a mouseout from such an element: the cursor is scaled back
MouseOut ==
    /\ Registered("hover")
    /\ PointerEvent("mouseout")
    /\ WriteStyle("cursor", "rest")
    /\ UNCHANGED <<cursorLoopVars, ripples, inThrottle>>

\* a mousemove on the hero, through Utils.throttle(..., 16)
HeroMouseMove ==
    /\ Registered("parallax")
    /\ PointerEvent("heromove")
    /\ IF ~inThrottle
       THEN /\ WriteStyle("codeWindow", "effect")
            /\ inThrottle' = TRUE
       ELSE UNCHANGED <<ptrStyle, inThrottle>>
    /\ UNCHANGED <<cursorLoopVars, ripples>>

\* the timeout of Utils.throttle runs
ThrottleTimeout ==
    /\ inThrottle
    /\ inThrottle' = FALSE
    /\ ptrOp' = "throttle"
    /\ UNCHANGED <<cursorLoopVars, ptrStyle, ripples, ptrEvents>>
    /\ UNCHANGED <<ptrVariant, isTouchDevice, hasGlow>>
    /\ UNCHANGED notPtrVars

\* a mouseleave on the hero: transform = ''
HeroMouseLeave ==
    /\ Registered("parallax")
    /\ PointerEvent("heroleave")
    /\ WriteStyle("codeWindow", "unset")
    /\ UNCHANGED <<cursorLoopVars, ripples, inThrottle>>

\* a mousemove on a .btn, .social-link or .project-link
MagneticMove ==
    /\ Registered("magnetic")
    /\ PointerEvent("btnmove")
    /\ WriteStyle("btn", "effect")
    /\ UNCHANGED <<cursorLoopVars, ripples, inThrottle>>

\* a mouseleave on it: transform = ''
MagneticLeave ==
    /\ Registered("magnetic")
    /\ PointerEvent("btnleave")
    /\ WriteStyle("btn", "unset")
    /\ UNCHANGED <<cursorLoopVars, ripples, inThrottle>>

\* a click on a .btn, .nav-link, .filter-btn, .social-link or .project-link
ClickRipple ==
    /\ Registered("ripple")
    /\ ripples < MaxRipples
    /\ PointerEvent("click")
    /\ ripples' = ripples + 1
    /\ UNCHANGED <<cursorLoopVars, ptrStyle, inThrottle>>

\* the timeout of a ripple runs: ripple.remove()
RippleTimeout ==
    /\ ripples > 0
    /\ ripples' = ripples - 1
    /\ ptrOp' = "rippleout"
    /\ UNCHANGED <<cursorLoopVars, ptrStyle, inThrottle, ptrEvents>>
    /\ UNCHANGED <<ptrVariant, isTouchDevice, hasGlow>>
    /\ UNCHANGED notPtrVars

\* a mousemove on a .project-card
CardTiltMove ==
    /\ Registered("tilt")
    /\ PointerEvent("cardmove")
    /\ WriteStyle("projectCard", "effect")
    /\ UNCHANGED <<cursorLoopVars, ripples, inThrottle>>

\* a mouseleave on it: the flat transform
CardTiltLeave ==
    /\ Registered("tilt")
    /\ PointerEvent("cardleave")
    /\ WriteStyle("projectCard", "rest")
    /\ UNCHANGED <<cursorLoopVars, ripples, inThrottle>>

\* a mousemove on a .service-card: its glow listener, then its tilt listener
ServiceCardMove ==
    /\ hasGlow
    /\ PointerEvent("servicemove")
    /\ ptrStyle' = [ptrStyle EXCEPT !["glow"] = "effect", !["serviceCard"] = "effect"]
    /\ UNCHANGED <<cursorLoopVars, ripples, inThrottle>>

\* a mouseleave on it: glow opacity '0', transform ''
ServiceCardLeave ==
    /\ hasGlow
    /\ PointerEvent("serviceleave")
    /\ ptrStyle' = [ptrStyle EXCEPT !["glow"] = "rest", !["serviceCard"] = "unset"]
    /\ UNCHANGED <<cursorLoopVars, ripples, inThrottle>>

(***************************************************************************)
(* REVEAL OBSERVERS                                                        *)
(*                                                                         *)
(* One observed container with its items. animObserver and sectionObserver *)
(* of the first script differ in their selectors only; animObserver of the *)
(* second script adds an effect class and staggers by 150 ms.              *)
(***************************************************************************)

\* scrollEffects
ScrollEffects ==
    <<"scroll-cinematic", "scroll-parallax-zoom", "scroll-staggered", "scroll-elastic",
      "scroll-glow">>

RevElements == 0..NumItems

\* the targets the observer observes: the container, and the last item if it
\* matches the selector of the observed cards
RevTargets == {0} \cup (IF itemObserved THEN {revItems} ELSE {})

RevEntries == [target : RevTargets, isIntersecting : BOOLEAN]

RevBatches == UNION {[1..n -> RevEntries] : n \in 1..MaxRevBatch}

\* the per-item delay of the variant
DelayUnit == IF revVariant = "first" THEN RevealDelay ELSE RevealDelaySecond

\* a stagger that gives every item the same delay
ItemDelayMutFlat(i) == DelayUnit

\* setTimeout(..., i * 80), setTimeout(..., i * 150)
ItemDelay(i) == i * DelayUnit

\* scrollEffects[n % scrollEffects.length]
EffectAt(n) == ScrollEffects[(n % Len(ScrollEffects)) + 1]

\* the classes an intersecting entry adds to its target
TargetClasses(eidx) ==
    IF revVariant = "first" THEN {"visible", "animate"}
    ELSE {"visible", "animate", EffectAt(eidx)}

\* the classes the timeout of item i adds, effectIndex being eidx when it is set
ItemClasses(eidx, i) ==
    IF revVariant = "first" THEN {"animate"}
    ELSE {"animate", EffectAt(eidx + i)}

\* the container and all its items carry their reveal classes
AllRevealed(cls) ==
    /\ {"visible", "animate"} \subseteq cls[0]
    /\ \A i \in 1..revItems : "animate" \in cls[i]

\* the number of intersecting entries of a batch
RECURSIVE Intersecting(_)
Intersecting(batch) ==
    IF batch = <<>> THEN 0
    ELSE (IF Head(batch).isIntersecting THEN 1 ELSE 0) + Intersecting(Tail(batch))

\* the body of entries.forEach for one entry, on the state st
RevealEntry(st, entry) ==
    IF ~entry.isIntersecting THEN st
    ELSE LET el == entry.target
             eidx == IF revVariant = "first" THEN st.eidx ELSE st.eidx + 1
             items == IF el = 0 THEN revItems ELSE 0
             new == [k \in 1..items |->
                        [trig |-> st.trig + 1, item |-> k - 1, left |-> ItemDelay(k - 1),
                         cls |-> ItemClasses(eidx, k - 1), again |-> AllRevealed(st.cls)]]
         IN  [cls |-> [st.cls EXCEPT ![el] = @ \cup TargetClasses(st.eidx)],
              timers |-> st.timers \o new,
              eidx |-> eidx,
              trig |-> st.trig + 1]

\* entries.forEach(...) from entry k on
RECURSIVE RevealLoop(_, _, _)
RevealLoop(k, st, batch) ==
    IF k > Len(batch) THEN st
    ELSE RevealLoop(k + 1, RevealEntry(st, batch[k]), batch)

InitReveal ==
    /\ revVariant \in {"first", "second"}
    /\ revItems \in 0..NumItems
    /\ itemObserved \in BOOLEAN
    /\ itemObserved => revItems >= 1
    /\ revClasses = [el \in RevElements |-> {}]
    /\ effectIndex = 0
    /\ revTimers = <<>>
    /\ revOp = "init"
    /\ revBatch = <<>>
    /\ revFired = <<>>
    /\ revTriggers = 0

\* the page has nothing to reveal
NoReveal ==
    /\ revVariant = "first"
    /\ revItems = 0
    /\ itemObserved = FALSE
    /\ revClasses = [el \in RevElements |-> {}]
    /\ effectIndex = 0
    /\ revTimers = <<>>
    /\ revOp = "init"
    /\ revBatch = <<>>
    /\ revFired = <<>>
    /\ revTriggers = 0

\* the observer's callback runs with the entries of batch
RevealCallback(batch) ==
    /\ revTriggers + Intersecting(batch) <= MaxTriggers
    /\ LET st == RevealLoop(1, [cls |-> revClasses, timers |-> revTimers,
                                eidx |-> effectIndex, trig |-> revTriggers], batch)
       IN  /\ revClasses' = st.cls
           /\ revTimers' = st.timers
           /\ effectIndex' = st.eidx
           /\ revTriggers' = st.trig
    /\ revOp' = "callback"
    /\ revBatch' = batch
    /\ UNCHANGED <<revVariant, revItems, itemObserved, revFired>>
    /\ UNCHANGED notRevVars

\* the timeouts that are due
DueTimers == {k \in 1..Len(revTimers) : revTimers[k].left = 0}

\* a sequence without its k-th element
RemoveAt(seq, k) == SubSeq(seq, 1, k - 1) \o SubSeq(seq, k + 1, Len(seq))

\* The timeout that is due and was set first runs: item.classList.add(...)
RevealTimeout ==
    /\ DueTimers # {}
    /\ LET k == CHOOSE d \in DueTimers : \A e \in DueTimers : d <= e
           t == revTimers[k]
       IN  /\ revClasses' = [revClasses EXCEPT ![t.item + 1] = @ \cup t.cls]
           /\ revTimers' = RemoveAt(revTimers, k)
           /\ revFired' = <<t>>
    /\ revOp' = "timeout"
    /\ UNCHANGED <<revVariant, revItems, itemObserved, effectIndex, revBatch, revTriggers>>
    /\ UNCHANGED notRevVars

\* the time left of the timeout that is due next
SoonestLeft ==
    CHOOSE m \in {revTimers[k].left : k \in 1..Len(revTimers)} :
        \A k \in 1..Len(revTimers) : m <= revTimers[k].left

\* time passes, up to the moment the next timeout is due
RevTimePasses ==
    /\ revTimers # <<>>
    /\ DueTimers = {}
    /\ LET dt == Min(RevTimeStep, SoonestLeft)
       IN  revTimers' = [k \in 1..Len(revTimers) |->
                            [revTimers[k] EXCEPT !.left = @ - dt]]
    /\ revOp' = "time"
    /\ UNCHANGED <<revVariant, revItems, itemObserved, revClasses, effectIndex,
                   revBatch, revFired, revTriggers>>
    /\ UNCHANGED notRevVars

(***************************************************************************)
(* CONTACT FORM, NEWSLETTER FORM, NOTIFICATION                             *)
(*                                                                         *)
(* A field is "" (empty or absent from the form data) or "x" (any other    *)
(* value).  form.reset() puts every field back to its default value, the   *)
(* empty string.  A form whose submit button is disabled is not submitted  *)
(* by the browser.                                                         *)
(***************************************************************************)
FieldNames == {"name", "email", "message"}
FieldValues == {"", "x"}

\* !data.name || !data.email || !data.message
HasEmptyFieldMutNameOnly(data) == data["name"] = ""
HasEmptyField(data) == \E f \in FieldNames : data[f] = ""

\* document.querySelector('.notification')?.remove(): the first notification
\* of the document, if there is one, leaves it
QueryRemoveMutKeep(notes) == notes
QueryRemove(notes) == IF notes = <<>> THEN <<>> ELSE Tail(notes)

\* showNotification(message, type): the notification in the document, if any,
\* is removed, a new one is appended, and a timeout that removes the new one
\* is set; the timeouts set before stay pending
ShowNotification(type) ==
    /\ note' = Append(QueryRemove(note), [id |-> noteSeq + 1, type |-> type])
    /\ noteTimers' = [i \in DOMAIN noteTimers \cup {noteSeq + 1} |->
                        IF i = noteSeq + 1 THEN NoteDelay ELSE noteTimers[i]]
    /\ noteSeq' = noteSeq + 1

NoNotification == UNCHANGED <<note, noteTimers, noteSeq>>

\* initContactForm, initNewsletter: both forms are in the document
InitForms ==
    /\ hasSubmitBtn \in BOOLEAN
    /\ hasNewsInput \in BOOLEAN
    /\ fields = [f \in FieldNames |-> ""]
    /\ newsEmail = ""
    /\ btnDisabled = FALSE
    /\ btnLabel = "original"
    /\ sendTimer = <<>>
    /\ note = <<>>
    /\ noteTimers = <<>>
    /\ noteSeq = 0
    /\ frmFault = FALSE
    /\ frmOp = "init"
    /\ frmSubmits = 0

\* neither form is in the document
NoForms ==
    /\ hasSubmitBtn = FALSE
    /\ hasNewsInput = FALSE
    /\ fields = [f \in FieldNames |-> ""]
    /\ newsEmail = ""
    /\ btnDisabled = FALSE
    /\ btnLabel = "original"
    /\ sendTimer = <<>>
    /\ note = <<>>
    /\ noteTimers = <<>>
    /\ noteSeq = 0
    /\ frmFault = FALSE
    /\ frmOp = "none"
    /\ frmSubmits = 0

\* the user edits a field of the contact form
EditField(f, v) ==
    /\ frmOp # "none"
    /\ fields[f] # v
    /\ fields' = [fields EXCEPT ![f] = v]
    /\ frmOp' = "edit"
    /\ UNCHANGED <<hasSubmitBtn, hasNewsInput, newsEmail, btnDisabled, btnLabel, sendTimer,
                   note, noteTimers, noteSeq, frmFault, frmSubmits>>
    /\ UNCHANGED notFrmVars

\* the user edits the input of the newsletter form
EditNewsEmail(v) ==
    /\ frmOp # "none"
    /\ hasNewsInput
    /\ newsEmail # v
    /\ newsEmail' = v
    /\ frmOp' = "edit"
    /\ UNCHANGED <<hasSubmitBtn, hasNewsInput, fields, btnDisabled, btnLabel, sendTimer,
                   note, noteTimers, noteSeq, frmFault, frmSubmits>>
    /\ UNCHANGED notFrmVars

\* the submit listener of the contact form
SubmitContact ==
    /\ frmOp # "none"
    /\ frmSubmits < MaxSubmits
    /\ ~(hasSubmitBtn /\ btnDisabled)
    /\ frmSubmits' = frmSubmits + 1
    /\ frmOp' = "contact"
    /\ IF HasEmptyField(fields)
       THEN /\ ShowNotification("error")
            /\ UNCHANGED <<btnDisabled, btnLabel, sendTimer, frmFault>>
       ELSE IF ~hasSubmitBtn
       THEN \* submitBtn is null: reading submitBtn.innerHTML throws
            /\ frmFault' = TRUE
            /\ NoNotification
            /\ UNCHANGED <<btnDisabled, btnLabel, sendTimer>>
       ELSE /\ btnLabel' = "sending"
            /\ btnDisabled' = TRUE
            /\ sendTimer' = <<[left |-> SendDelay, originalText |-> btnLabel]>>
            /\ NoNotification
            /\ UNCHANGED frmFault
    /\ UNCHANGED <<hasSubmitBtn, hasNewsInput, fields, newsEmail>>
    /\ UNCHANGED notFrmVars

\* the timeout of a submission of the contact form
SendTimeout ==
    /\ sendTimer # <<>>
    /\ sendTimer[1].left = 0
    /\ ShowNotification("success")
    /\ fields' = [f \in FieldNames |-> ""]
    /\ btnLabel' = sendTimer[1].originalText
    /\ btnDisabled' = FALSE
    /\ sendTimer' = <<>>
    /\ frmOp' = "sent"
    /\ UNCHANGED <<hasSubmitBtn, hasNewsInput, newsEmail, frmFault, frmSubmits>>
    /\ UNCHANGED notFrmVars

\* the submit listener of the newsletter form
SubmitNewsletter ==
    /\ frmOp # "none"
    /\ frmSubmits < MaxSubmits
    /\ frmSubmits' = frmSubmits + 1
    /\ frmOp' = "newsletter"
    /\ IF ~hasNewsInput
       THEN \* form.querySelector('input') is null: reading .value throws
            /\ frmFault' = TRUE
            /\ NoNotification
            /\ UNCHANGED newsEmail
       ELSE IF newsEmail # ""
       THEN /\ ShowNotification("success")
            /\ newsEmail' = ""
            /\ UNCHANGED frmFault
       ELSE /\ NoNotification
            /\ UNCHANGED <<newsEmail, frmFault>>
    /\ UNCHANGED <<hasSubmitBtn, hasNewsInput, fields, btnDisabled, btnLabel, sendTimer>>
    /\ UNCHANGED notFrmVars

\* the timeout of a notification: notification.remove() on the element the
\* timeout was set for, which may have left the document already
NoteTimeout ==
    /\ \E i \in DOMAIN noteTimers :
        /\ noteTimers[i] = 0
        /\ \A j \in DOMAIN noteTimers : noteTimers[j] = 0 => i <= j
        /\ noteTimers' = [j \in DOMAIN noteTimers \ {i} |-> noteTimers[j]]
        /\ note' = SelectSeq(note, LAMBDA n : n.id # i)
    /\ frmOp' = "removed"
    /\ UNCHANGED <<hasSubmitBtn, hasNewsInput, fields, newsEmail, btnDisabled, btnLabel,
                   sendTimer, noteSeq, frmFault, frmSubmits>>
    /\ UNCHANGED notFrmVars

\* the ms left of the pending timeouts of the forms
FormLefts ==
    {noteTimers[i] : i \in DOMAIN noteTimers}
        \cup (IF sendTimer = <<>> THEN {} ELSE {sendTimer[1].left})

\* time passes: by FormTimeStep ms, or up to the moment the next timeout is due
FormTimePasses ==
    /\ FormLefts # {}
    /\ \A l \in FormLefts : l > 0
    /\ LET soonest == CHOOSE l \in FormLefts : \A m \in FormLefts : l <= m
           dt == IF soonest < FormTimeStep THEN soonest ELSE FormTimeStep
       IN  /\ noteTimers' = [i \in DOMAIN noteTimers |-> noteTimers[i] - dt]
           /\ sendTimer' = IF sendTimer = <<>> THEN <<>>
                           ELSE <<[sendTimer[1] EXCEPT !.left = @ - dt]>>
    /\ frmOp' = "time"
    /\ UNCHANGED <<hasSubmitBtn, hasNewsInput, fields, newsEmail, btnDisabled, btnLabel,
                   note, noteSeq, frmFault, frmSubmits>>
    /\ UNCHANGED notFrmVars

(***************************************************************************)
(* PAGE INITIALISATION (first script)                                      *)
(*                                                                         *)
(* The script is evaluated top to bottom: it adds the DOMContentLoaded     *)
(* listener of line 101 and the click listener of the project filters,     *)
(* runs the immediately invoked initializers and adds the DOMContentLoaded *)
(* listener of line 921.  DOMContentLoaded then runs its listeners in the  *)
(* order they were added.  Each call is one step.                          *)
(***************************************************************************)
\* the elements and element lists the initializers look up and guard on
OptionalElements ==
    {"typing-text", "particles", "contact-form", "newsletter-form", "preloader",
     "back-to-top", "theme-toggle", "theme-icon", "testimonial-track", "testimonial-prev",
     "testimonial-next", "testimonial-dots", "funfact-number", "placeholder-img"}

\* the elements an initializer returns early without
RequiresMutNoIcon(fn) ==
    CASE fn = "runPreloader" -> {"preloader"}
      [] fn = "initBackToTop" -> {"back-to-top"}
      [] fn = "initThemeToggle" -> {"theme-toggle"}
      [] fn = "initTestimonialsSlider" ->
            {"testimonial-track", "testimonial-prev", "testimonial-next", "testimonial-dots"}
      [] fn = "initFunFactCounters" -> {"funfact-number"}
      [] fn = "initNewsletter" -> {"newsletter-form"}
      [] fn = "initLazyImages" -> {"placeholder-img"}
      [] fn = "initTypingEffect" -> {"typing-text"}
      [] fn = "initContactForm" -> {"contact-form"}
      [] fn = "initParticles" -> {"particles"}
      [] OTHER -> {}
Requires(fn) ==
    CASE fn = "runPreloader" -> {"preloader"}
      [] fn = "initBackToTop" -> {"back-to-top"}
      [] fn = "initThemeToggle" -> {"theme-toggle", "theme-icon"}
      [] fn = "initTestimonialsSlider" ->
            {"testimonial-track", "testimonial-prev", "testimonial-next", "testimonial-dots"}
      [] fn = "initFunFactCounters" -> {"funfact-number"}
      [] fn = "initNewsletter" -> {"newsletter-form"}
      [] fn = "initLazyImages" -> {"placeholder-img"}
      [] fn = "initTypingEffect" -> {"typing-text"}
      [] fn = "initContactForm" -> {"contact-form"}
      [] fn = "initParticles" -> {"particles"}
      [] OTHER -> {}

\* the initializers that add no event listener and no observer
AddsListener(fn) == fn \notin {"runPreloader", "initTypingEffect", "initParticles"}

\* the initializers that start a timer: the preloader's interval and fallback
\* timeout, the carousel's startAutoPlay, the first call of type()
StartsTimer(fn) == fn \in {"runPreloader", "initTestimonialsSlider", "initTypingEffect"}

\* the calls the script makes while it is evaluated
ScriptCalls ==
    <<"addMainListener", "projectFilters", "initPreloader", "initBackToTop",
      "initThemeToggle", "initTestimonialsSlider", "initFunFactCounters", "initNewsletter",
      "initLazyImages", "initSmoothAnchors", "addSectionsListener">>

\* the calls of initAll
InitAllCalls ==
    <<"initLenis", "initNavigation", "initTypingEffect", "initIntersectionObservers",
      "initScrollHandler", "initContactForm", "initParticles", "initMouseEffects",
      "initScrollProgress">>

CallsOf(fns, handler) == [i \in 1..Len(fns) |-> [fn |-> fns[i], handler |-> handler]]

\* the catch clause of initLenis takes what new Lenis throws
LenisCaughtMutEscapes(outcome) == outcome # "throws"
LenisCaught(outcome) == TRUE

\* fn is the call to make next
Call(fn) == todo # <<>> /\ Head(todo).fn = fn

\* the call returns
Returns == todo' = Tail(todo)

\* the call throws: the rest of its handler is not run
Throws ==
    /\ todo' = SelectSeq(Tail(todo), LAMBDA c : c.handler # Head(todo).handler)
    /\ bootFault' = TRUE

\* the state after the script has been fetched, before its first statement
InitBoot ==
    /\ bootReady \in {"loading", "interactive"}
    /\ bootTouch \in BOOLEAN
    /\ lenisOutcome \in {"undefined", "throws", "ok"}
    /\ \E absent \in SUBSET OptionalElements :
        /\ Cardinality(absent) <= MaxAbsent
        /\ present = OptionalElements \ absent
    /\ todo = CallsOf(ScriptCalls, "script")
    /\ readyHooks = <<>>
    /\ domReady = FALSE
    /\ ran = <<>>
    /\ initDone = {}
    /\ listeners = {}
    /\ bootTimers = {}
    /\ lenisSet = FALSE
    /\ lenisLoop = FALSE
    /\ bootWarnings = 0
    /\ bootFault = FALSE
    /\ jsLoaded = FALSE

\* the initialisation is not followed
NoBoot ==
    /\ bootReady = "loading"
    /\ bootTouch = FALSE
    /\ lenisOutcome = "undefined"
    /\ present = {}
    /\ todo = <<>>
    /\ readyHooks = <<>>
    /\ domReady = TRUE
    /\ ran = <<>>
    /\ initDone = {}
    /\ listeners = {}
    /\ bootTimers = {}
    /\ lenisSet = FALSE
    /\ lenisLoop = FALSE
    /\ bootWarnings = 0
    /\ bootFault = FALSE
    /\ jsLoaded = FALSE

\* an initializer with an early return: without one of the elements it
\* requires (or with enabled false) it returns at once; else it does its work,
\* adds its listeners and starts its timers
Initializer(fn, enabled) ==
    /\ Call(fn)
    /\ ran' = Append(ran, fn)
    /\ LET ok == enabled /\ Requires(fn) \subseteq present
       IN  /\ initDone' = IF ok THEN initDone \cup {fn} ELSE initDone
           /\ listeners' = IF ok /\ AddsListener(fn) THEN listeners \cup {fn} ELSE listeners
           /\ bootTimers' = IF ok /\ StartsTimer(fn) THEN bootTimers \cup {fn} ELSE bootTimers
    /\ Returns
    /\ UNCHANGED <<bootReady, bootTouch, lenisOutcome, present, readyHooks, domReady,
                   lenisSet, lenisLoop, bootWarnings, bootFault, jsLoaded>>
    /\ UNCHANGED notBootVars

\* document.addEventListener('DOMContentLoaded', ...) of line 101 and of line 921
AddReadyListener(fn, hook) ==
    /\ Call(fn)
    /\ readyHooks' = Append(readyHooks, hook)
    /\ Returns
    /\ UNCHANGED <<bootReady, bootTouch, lenisOutcome, present, domReady, ran, initDone,
                   listeners, bootTimers, lenisSet, lenisLoop, bootWarnings, bootFault,
                   jsLoaded>>
    /\ UNCHANGED notBootVars

AddMainListener ==
    /\ Call("addMainListener")
    /\ AddReadyListener("addMainListener", "main")

AddSectionsListener ==
    /\ Call("addSectionsListener")
    /\ AddReadyListener("addSectionsListener", "sections")

\* the click listener of the project filters, added to the document
ProjectFilters ==
    /\ Call("projectFilters")
    /\ Initializer("projectFilters", TRUE)

\* initPreloader: runPreloader is called now, or on DOMContentLoaded while the
\* document is loading
initPreloader ==
    /\ Call("initPreloader")
    /\ ran' = Append(ran, "initPreloader")
    /\ IF bootReady = "loading"
       THEN /\ readyHooks' = Append(readyHooks, "runPreloader")
            /\ Returns
       ELSE /\ todo' = <<[fn |-> "runPreloader", handler |-> "script"]>> \o Tail(todo)
            /\ UNCHANGED readyHooks
    /\ UNCHANGED <<bootReady, bootTouch, lenisOutcome, present, domReady, initDone, listeners,
                   bootTimers, lenisSet, lenisLoop, bootWarnings, bootFault, jsLoaded>>
    /\ UNCHANGED notBootVars

runPreloader ==
    /\ Call("runPreloader")
    /\ Initializer("runPreloader", TRUE)

initBackToTop ==
    /\ Call("initBackToTop")
    /\ Initializer("initBackToTop", TRUE)

initThemeToggle ==
    /\ Call("initThemeToggle")
    /\ Initializer("initThemeToggle", TRUE)

initTestimonialsSlider ==
    /\ Call("initTestimonialsSlider")
    /\ Initializer("initTestimonialsSlider", TRUE)

initFunFactCounters ==
    /\ Call("initFunFactCounters")
    /\ Initializer("initFunFactCounters", TRUE)

initNewsletter ==
    /\ Call("initNewsletter")
    /\ Initializer("initNewsletter", TRUE)

initLazyImages ==
    /\ Call("initLazyImages")
    /\ Initializer("initLazyImages", TRUE)

initSmoothAnchors ==
    /\ Call("initSmoothAnchors")
    /\ Initializer("initSmoothAnchors", TRUE)

\* the browser dispatches DOMContentLoaded once the script has been evaluated
DOMContentLoaded ==
    /\ todo = <<>>
    /\ ~domReady
    /\ domReady' = TRUE
    /\ todo' = [i \in 1..Len(readyHooks) |-> [fn |-> readyHooks[i], handler |-> readyHooks[i]]]
    /\ UNCHANGED <<bootReady, bootTouch, lenisOutcome, present, readyHooks, ran, initDone,
                   listeners, bootTimers, lenisSet, lenisLoop, bootWarnings, bootFault,
                   jsLoaded>>
    /\ UNCHANGED notBootVars

\* the listener of line 101: DOM.init(), the class 'js-loaded', initAll()
MainListener ==
    /\ Call("main")
    /\ jsLoaded' = TRUE
    /\ todo' = CallsOf(InitAllCalls, "main") \o Tail(todo)
    /\ UNCHANGED <<bootReady, bootTouch, lenisOutcome, present, readyHooks, domReady, ran,
                   initDone, listeners, bootTimers, lenisSet, lenisLoop, bootWarnings,
                   bootFault>>
    /\ UNCHANGED notBootVars

initLenis ==
    /\ Call("initLenis")
    /\ ran' = Append(ran, "initLenis")
    /\ IF lenisOutcome = "undefined"
       THEN /\ bootWarnings' = bootWarnings + 1
            /\ Returns
            /\ UNCHANGED <<lenisSet, lenisLoop, initDone, bootFault>>
       ELSE IF lenisOutcome = "throws"
       THEN /\ UNCHANGED <<lenisSet, lenisLoop, initDone>>
            /\ IF LenisCaught(lenisOutcome)
               THEN bootWarnings' = bootWarnings + 1 /\ Returns /\ UNCHANGED bootFault
               ELSE Throws /\ UNCHANGED bootWarnings
       ELSE /\ lenisSet' = TRUE
            /\ lenisLoop' = TRUE
            /\ initDone' = initDone \cup {"initLenis"}
            /\ Returns
            /\ UNCHANGED <<bootWarnings, bootFault>>
    /\ UNCHANGED <<bootReady, bootTouch, lenisOutcome, present, readyHooks, domReady,
                   listeners, bootTimers, jsLoaded>>
    /\ UNCHANGED notBootVars

initNavigation ==
    /\ Call("initNavigation")
    /\ Initializer("initNavigation", TRUE)

initTypingEffect ==
    /\ Call("initTypingEffect")
    /\ Initializer("initTypingEffect", TRUE)

initIntersectionObservers ==
    /\ Call("initIntersectionObservers")
    /\ Initializer("initIntersectionObservers", TRUE)

initScrollHandler ==
    /\ Call("initScrollHandler")
    /\ Initializer("initScrollHandler", TRUE)

initContactForm ==
    /\ Call("initContactForm")
    /\ Initializer("initContactForm", TRUE)

initParticles ==
    /\ Call("initParticles")
    /\ Initializer("initParticles", TRUE)

\* if (isTouchDevice) return;
initMouseEffects ==
    /\ Call("initMouseEffects")
    /\ Initializer("initMouseEffects", ~bootTouch)

initScrollProgress ==
    /\ Call("initScrollProgress")
    /\ Initializer("initScrollProgress", TRUE)

\* the listener of line 921: the section observer, the tilt listeners
SectionsListener ==
    /\ Call("sections")
    /\ Initializer("sections", TRUE)

\* the script has been evaluated and DOMContentLoaded has been handled
BootDone == domReady /\ todo = <<>>

(***************************************************************************)
(* SCROLL PROGRESS BAR                                                     *)
(*                                                                         *)
(* The listener is Utils.throttle(update, 16): a call runs update and      *)
(* closes the throttle, a timeout opens it again 16 ms later, and a call   *)
(* that finds it closed does nothing.                                      *)
(***************************************************************************)
\* document.documentElement.scrollHeight - window.innerHeight
ScrollRange == 50 * MaxScrollSteps

\* window.scrollY / (scrollHeight - innerHeight), kept as a fraction
Progress(y) == [num |-> y, den |-> ScrollRange]

\* if (!inThrottle): the wrapped function is called
ThrottleOpenMutAlways(inThr) == TRUE
ThrottleOpen(inThr) == ~inThr

\* initScrollProgress: the bar is appended with transform: scaleX(0)
InitProgress ==
    /\ prgScrollY = 0
    /\ prgScale = [num |-> 0, den |-> 1]
    /\ prgInThrottle = FALSE
    /\ prgTimer = 0
    /\ prgOp = "init"
    /\ prgScrolls = 0
    /\ prgInvoked = 0

\* the progress bar is not followed
NoProgress ==
    /\ prgScrollY = 0
    /\ prgScale = [num |-> 0, den |-> 1]
    /\ prgInThrottle = FALSE
    /\ prgTimer = 0
    /\ prgOp = "none"
    /\ prgScrolls = 0
    /\ prgInvoked = 0

\* a scroll event at offset y reaches the throttled listener
ProgressScroll(y) ==
    /\ prgOp # "none"
    /\ prgScrolls < MaxPrgScrolls
    /\ prgScrolls' = prgScrolls + 1
    /\ prgScrollY' = y
    /\ IF ThrottleOpen(prgInThrottle)
       THEN /\ prgScale' = Progress(y)
            /\ prgInThrottle' = TRUE
            /\ prgTimer' = ProgressLimit
            /\ prgInvoked' = prgInvoked + 1
            /\ prgOp' = "scroll"
       ELSE /\ prgOp' = "dropped"
            /\ UNCHANGED <<prgScale, prgInThrottle, prgTimer, prgInvoked>>
    /\ UNCHANGED notPrgVars

\* setTimeout(() => inThrottle = false, limit)
ProgressThrottleTimeout ==
    /\ prgInThrottle
    /\ prgTimer = 0
    /\ prgInThrottle' = FALSE
    /\ prgOp' = "timeout"
    /\ UNCHANGED <<prgScrollY, prgScale, prgTimer, prgScrolls, prgInvoked>>
    /\ UNCHANGED notPrgVars

\* time passes: by PrgTimeStep ms, or up to the moment the timeout is due
ProgressTimePasses ==
    /\ prgInThrottle
    /\ prgTimer > 0
    /\ prgTimer' = IF prgTimer < PrgTimeStep THEN 0 ELSE prgTimer - PrgTimeStep
    /\ prgOp' = "time"
    /\ UNCHANGED <<prgScrollY, prgScale, prgInThrottle, prgScrolls, prgInvoked>>
    /\ UNCHANGED notPrgVars

(***************************************************************************)
(* MOBILE NAV MENU (first script)                                          *)
(*                                                                         *)
(* The page is the one the selectors of the script presume: #nav-toggle    *)
(* carries the class nav-toggle, #nav-menu the class nav-menu and holds    *)
(* the nav links, and the toggle is outside the menu.  A click runs the    *)
(* listener of its target and then, bubbling, the click listener of the    *)
(* document; an action is the whole dispatch.                              *)
(***************************************************************************)
Keys == {"Escape", "Enter"}

\* the click listener of the document closes the menu: the menu is open and
\* the target is neither inside .nav-menu nor inside .nav-toggle
ClosesOnClickMutNoToggleTest(open, inMenu, inToggle) == open /\ ~inMenu
ClosesOnClick(open, inMenu, inToggle) == open /\ ~inMenu /\ ~inToggle

\* initNavigation has run; both elements are closed
InitMenu ==
    /\ hasNavToggle \in BOOLEAN
    /\ hasNavMenu \in BOOLEAN
    /\ toggleActive = FALSE
    /\ menuActive = FALSE
    /\ mnuOp = "init"
    /\ mnuEvents = 0

\* the nav menu is not followed
NoMenu ==
    /\ hasNavToggle = FALSE
    /\ hasNavMenu = FALSE
    /\ toggleActive = FALSE
    /\ menuActive = FALSE
    /\ mnuOp = "none"
    /\ mnuEvents = 0

\* the click listener of the document, for a click on a target inside the
\* menu (inMenu) or inside the toggle (inToggle), after the target's own
\* listener left the classes as ta and ma
DocumentClick(ta, ma, inMenu, inToggle) ==
    /\ toggleActive' = IF ClosesOnClick(ma, inMenu, inToggle) THEN FALSE ELSE ta
    /\ menuActive' = IF ClosesOnClick(ma, inMenu, inToggle) THEN FALSE ELSE ma

MenuEvent(op) ==
    /\ mnuOp # "none"
    /\ mnuEvents < MaxMenuEvents
    /\ mnuEvents' = mnuEvents + 1
    /\ mnuOp' = op
    /\ UNCHANGED <<hasNavToggle, hasNavMenu>>
    /\ UNCHANGED notMnuVars

\* a click on the toggle: its listener toggles 'active' on the toggle and on
\* the menu, if there is one
ClickToggle ==
    /\ hasNavToggle
    /\ MenuEvent("toggle")
    /\ DocumentClick(~toggleActive, IF hasNavMenu THEN ~menuActive ELSE menuActive,
                     FALSE, TRUE)

\* a click outside the menu and the toggle
ClickOutside ==
    /\ MenuEvent("outside")
    /\ DocumentClick(toggleActive, menuActive, FALSE, FALSE)

\* a click inside the menu, not on a nav link
ClickInsideMenu ==
    /\ hasNavMenu
    /\ MenuEvent("inside")
    /\ DocumentClick(toggleActive, menuActive, TRUE, FALSE)

\* a key press
KeyDown(key) ==
    /\ MenuEvent(key)
    /\ toggleActive' = IF key = "Escape" /\ menuActive THEN FALSE ELSE toggleActive
    /\ menuActive' = IF key = "Escape" /\ menuActive THEN FALSE ELSE menuActive

\* a click on a nav link: its listener removes 'active' from both
ClickNavLink ==
    /\ hasNavMenu
    /\ MenuEvent("link")
    /\ DocumentClick(FALSE, FALSE, TRUE, FALSE)

(***************************************************************************)
(* PROJECT FILTERS                                                         *)
(*                                                                         *)
(* The page has a filter button for 'all' and one per category, and one    *)
(* project card per category.                                              *)
(***************************************************************************)
Categories == {"web", "app"}

Filters == {"all"} \cup Categories

\* the .project-card elements, each named by its data-category
Cards == Categories

\* filter === 'all' || card.dataset.category === filter
MatchesFilter(filter, card) == filter = "all" \/ card = filter

\* the page as loaded: the button of 'all' is active, no card has a style
InitFilter ==
    /\ fltActive = {"all"}
    /\ cardDisplay = [c \in Cards |-> ""]
    /\ cardOpacity = [c \in Cards |-> ""]
    /\ hideTimers = <<>>
    /\ showFrames = {}
    /\ fltLast = "none"
    /\ fltOp = "init"
    /\ fltClicks = 0

\* the project filters are not followed
NoFilter ==
    /\ fltActive = {}
    /\ cardDisplay = [c \in Cards |-> ""]
    /\ cardOpacity = [c \in Cards |-> ""]
    /\ hideTimers = <<>>
    /\ showFrames = {}
    /\ fltLast = "none"
    /\ fltOp = "none"
    /\ fltClicks = 0

\* the cards in the order of document.querySelectorAll('.project-card')
CardOrder == <<"web", "app">>

\* the timeouts one click sets, in card order
RECURSIVE NewHideTimers(_, _)
NewHideTimers(filter, i) ==
    IF i > Len(CardOrder) THEN <<>>
    ELSE (IF MatchesFilter(filter, CardOrder[i]) THEN <<>>
          ELSE <<[card |-> CardOrder[i], left |-> HideDelay]>>)
            \o NewHideTimers(filter, i + 1)

\* a click on the filter button of filter
ClickFilter(filter) ==
    /\ fltOp # "none"
    /\ fltClicks < MaxFilterClicks
    /\ fltClicks' = fltClicks + 1
    /\ fltActive' = {filter}
    /\ fltLast' = filter
    /\ cardDisplay' = [c \in Cards |->
                         IF MatchesFilter(filter, c) THEN "block" ELSE cardDisplay[c]]
    /\ cardOpacity' = [c \in Cards |->
                         IF MatchesFilter(filter, c) THEN cardOpacity[c] ELSE "0"]
    /\ showFrames' = showFrames \cup {c \in Cards : MatchesFilter(filter, c)}
    /\ hideTimers' = hideTimers \o NewHideTimers(filter, 1)
    /\ fltOp' = "click"
    /\ UNCHANGED notFltVars

\* the timeout set first among those that are due runs:
\* card.style.display = 'none'
HideTimeout ==
    /\ \E i \in 1..Len(hideTimers) :
        /\ hideTimers[i].left = 0
        /\ \A j \in 1..(i - 1) : hideTimers[j].left # 0
        /\ cardDisplay' = [cardDisplay EXCEPT ![hideTimers[i].card] = "none"]
        /\ hideTimers' = SubSeq(hideTimers, 1, i - 1)
                            \o SubSeq(hideTimers, i + 1, Len(hideTimers))
    /\ fltOp' = "timeout"
    /\ UNCHANGED <<fltActive, cardOpacity, showFrames, fltLast, fltClicks>>
    /\ UNCHANGED notFltVars

\* a frame: the pending callbacks set opacity '1' on their cards
FilterFrame ==
    /\ showFrames # {}
    /\ cardOpacity' = [c \in Cards |-> IF c \in showFrames THEN "1" ELSE cardOpacity[c]]
    /\ showFrames' = {}
    /\ fltOp' = "frame"
    /\ UNCHANGED <<fltActive, cardDisplay, hideTimers, fltLast, fltClicks>>
    /\ UNCHANGED notFltVars

\* time passes: by FilterTimeStep ms, or up to the moment the next timeout is due
FilterTimePasses ==
    /\ hideTimers # <<>>
    /\ \A i \in 1..Len(hideTimers) : hideTimers[i].left > 0
    /\ LET lefts == {hideTimers[i].left : i \in 1..Len(hideTimers)}
           soonest == CHOOSE l \in lefts : \A m \in lefts : l <= m
           dt == IF soonest < FilterTimeStep THEN soonest ELSE FilterTimeStep
       IN  hideTimers' = [i \in 1..Len(hideTimers) |->
                             [hideTimers[i] EXCEPT !.left = @ - dt]]
    /\ fltOp' = "time"
    /\ UNCHANGED <<fltActive, cardDisplay, cardOpacity, showFrames, fltLast, fltClicks>>
    /\ UNCHANGED notFltVars

(***************************************************************************)
(* PRELOADER                                                               *)
(*                                                                         *)
(* The progress is a number of units of 1/RandomSteps percent, so that     *)
(* every value Math.random() * 25 + 5 can take here is a whole number of   *)
(* units.  Timers run at the moment they are due; of two timers due at the *)
(* same moment either may run first.                                       *)
(***************************************************************************)
\* 100 percent
Full == 100 * RandomSteps

\* Math.random() * 25 + 5, for Math.random() = k / RandomSteps
RandomIncrement(k) == 25 * k + 5 * RandomSteps

CapProgressMutNone(p) == p

\* if (progress > 100) progress = 100
CapProgress(p) == IF p > Full THEN Full ELSE p

\* Math.min(Math.floor(progress / 25), statuses.length - 1)
StatusIndex(p) ==
    IF p \div (25 * RandomSteps) < StatusCount - 1
    THEN p \div (25 * RandomSteps) ELSE StatusCount - 1

\* the page before runPreloader
InitPreloader ==
    /\ hasPreloader \in BOOLEAN
    /\ hasProgressBar \in BOOLEAN
    /\ hasStatusText \in BOOLEAN
    /\ plStarted = FALSE
    /\ plProgress = 0
    /\ plWidth = -1
    /\ plStatus = -1
    /\ plInterval = -1
    /\ plLoadTimer = -1
    /\ plFallback = -1
    /\ plLoaded = FALSE
    /\ plOverflow \in {"hidden", ""}
    /\ plElapsed = 0
    /\ plOp = "init"

\* the preloader is not followed
NoPreloader ==
    /\ hasPreloader = FALSE
    /\ hasProgressBar = FALSE
    /\ hasStatusText = FALSE
    /\ plStarted = FALSE
    /\ plProgress = 0
    /\ plWidth = -1
    /\ plStatus = -1
    /\ plInterval = -1
    /\ plLoadTimer = -1
    /\ plFallback = -1
    /\ plLoaded = FALSE
    /\ plOverflow = ""
    /\ plElapsed = 0
    /\ plOp = "none"

\* runPreloader: without #preloader it returns, else it sets the interval and
\* the fallback timeout
RunPreloader ==
    /\ plOp = "init"
    /\ plStarted' = TRUE
    /\ IF hasPreloader
       THEN plInterval' = TickDelay /\ plFallback' = FallbackDelay
       ELSE UNCHANGED <<plInterval, plFallback>>
    /\ plOp' = "run"
    /\ UNCHANGED <<hasPreloader, hasProgressBar, hasStatusText, plProgress, plWidth,
                   plStatus, plLoadTimer, plLoaded, plOverflow, plElapsed>>
    /\ UNCHANGED notPlVars

\* a tick of the interval, Math.random() being k / RandomSteps
PreloaderTick(k) ==
    /\ plInterval = 0
    /\ LET p == CapProgress(plProgress + RandomIncrement(k))
       IN  /\ plProgress' = p
           /\ plWidth' = IF hasProgressBar THEN p ELSE plWidth
           /\ plStatus' = IF hasStatusText THEN StatusIndex(p) ELSE plStatus
           /\ IF p >= Full
              THEN plInterval' = -1 /\ plLoadTimer' = LoadedDelay
              ELSE plInterval' = TickDelay /\ UNCHANGED plLoadTimer
    /\ plOp' = "tick"
    /\ UNCHANGED <<hasPreloader, hasProgressBar, hasStatusText, plStarted, plFallback,
                   plLoaded, plOverflow, plElapsed>>
    /\ UNCHANGED notPlVars

\* the timeout set by the tick that completed the progress
LoadedTimeout ==
    /\ plLoadTimer = 0
    /\ plLoadTimer' = -1
    /\ plLoaded' = TRUE
    /\ plOverflow' = ""
    /\ plOp' = "loaded"
    /\ UNCHANGED <<hasPreloader, hasProgressBar, hasStatusText, plStarted, plProgress,
                   plWidth, plStatus, plInterval, plFallback, plElapsed>>
    /\ UNCHANGED notPlVars

\* the fallback timeout
FallbackTimeout ==
    /\ plFallback = 0
    /\ plFallback' = -1
    /\ plInterval' = -1
    /\ plWidth' = IF hasProgressBar THEN Full ELSE plWidth
    /\ plLoaded' = TRUE
    /\ plOverflow' = ""
    /\ plOp' = "fallback"
    /\ UNCHANGED <<hasPreloader, hasProgressBar, hasStatusText, plStarted, plProgress,
                   plStatus, plLoadTimer, plElapsed>>
    /\ UNCHANGED notPlVars

\* the preloader's pending timers
PreloaderLefts == {l \in {plInterval, plLoadTimer, plFallback} : l >= 0}

\* time passes: by PreTimeStep ms, or up to the moment the next timer is due
PreloaderTimePasses ==
    /\ PreloaderLefts # {}
    /\ 0 \notin PreloaderLefts
    /\ LET soonest == CHOOSE l \in PreloaderLefts : \A m \in PreloaderLefts : l <= m
           dt == IF soonest < PreTimeStep THEN soonest ELSE PreTimeStep
       IN  /\ plInterval' = IF plInterval >= 0 THEN plInterval - dt ELSE -1
           /\ plLoadTimer' = IF plLoadTimer >= 0 THEN plLoadTimer - dt ELSE -1
           /\ plFallback' = IF plFallback >= 0 THEN plFallback - dt ELSE -1
           /\ plElapsed' = plElapsed + dt
    /\ plOp' = "time"
    /\ UNCHANGED <<hasPreloader, hasProgressBar, hasStatusText, plStarted, plProgress,
                   plWidth, plStatus, plLoaded, plOverflow>>
    /\ UNCHANGED notPlVars

(***************************************************************************)
(* SPECIFICATIONS                                                          *)
(***************************************************************************)

InitNavPage == InitNav /\ NoCarousel /\ NoCounter /\ NoObserver /\ NoTyping /\ NoTheme /\ NoRaf /\ NoPointer /\ NoReveal /\ NoForms /\ NoBoot /\ NoProgress /\ NoMenu /\ NoFilter /\ NoPreloader

NextNav == \E y \in ScrollOffsets : HandleScroll(y)

SpecNav == InitNavPage /\ [][NextNav]_vars

\* the page is not scrolled
NoNav ==
    /\ sections = <<>>
    /\ navActive = {}
    /\ navbarScrolled = FALSE
    /\ scrollY = 0
    /\ lastScrollY = 0
    /\ navOp = "init"

InitCarouselPage == InitCarousel /\ NoNav /\ NoCounter /\ NoObserver /\ NoTyping /\ NoTheme /\ NoRaf /\ NoPointer /\ NoReveal /\ NoForms /\ NoBoot /\ NoProgress /\ NoMenu /\ NoFilter /\ NoPreloader

NextCarousel ==
    \/ ClickPrev
    \/ ClickNext
    \/ \E i \in Dots : ClickDot(i)
    \/ \E x \in TouchXs : TouchStart(x)
    \/ \E x \in TouchXs : TouchEnd(x)
    \/ \E id \in 1..MaxTimers : AutoPlayTick(id)
    \/ TimePasses

SpecCarousel == InitCarouselPage /\ [][NextCarousel]_vars

InitCounterPage == InitCounter /\ NoNav /\ NoCarousel /\ NoObserver /\ NoTyping /\ NoTheme /\ NoRaf /\ NoPointer /\ NoReveal /\ NoForms /\ NoBoot /\ NoProgress /\ NoMenu /\ NoFilter /\ NoPreloader

NextCounter == \E e \in {-1, 0, 1} : CounterTick(e)

SpecCounter == InitCounterPage /\ [][NextCounter]_vars

\* the browser keeps calling the callback of a live interval
SpecCounterFair == SpecCounter /\ WF_vars(NextCounter)

InitObserverPage == InitObserver /\ NoNav /\ NoCarousel /\ NoCounter /\ NoTyping /\ NoTheme /\ NoRaf /\ NoPointer /\ NoReveal /\ NoForms /\ NoBoot /\ NoProgress /\ NoMenu /\ NoFilter /\ NoPreloader

NextObserver == \E o \in Observers : \E batch \in Batches : ObserverCallback(o, batch)

SpecObserver == InitObserverPage /\ [][NextObserver]_vars

InitTypingPage == InitTyping /\ NoNav /\ NoCarousel /\ NoCounter /\ NoObserver /\ NoTheme /\ NoRaf /\ NoPointer /\ NoReveal /\ NoForms /\ NoBoot /\ NoProgress /\ NoMenu /\ NoFilter /\ NoPreloader

NextTyping == Type

\* the typing effect alone
SpecTyping == InitTypingPage /\ [][NextTyping]_vars

\* the browser runs a timeout that is due
SpecTypingFair == SpecTyping /\ WF_vars(Type)

InitThemePage == InitTheme /\ NoNav /\ NoCarousel /\ NoCounter /\ NoObserver /\ NoTyping /\ NoRaf /\ NoPointer /\ NoReveal /\ NoForms /\ NoBoot /\ NoProgress /\ NoMenu /\ NoFilter /\ NoPreloader

NextTheme ==
    \/ ClickThemeToggle
    \/ ReloadTheme

\* the theme toggle alone
SpecTheme == InitThemePage /\ [][NextTheme]_vars

InitScrollPage ==
    InitScroll /\ NoCarousel /\ NoCounter /\ NoObserver /\ NoTyping /\ NoTheme /\ NoPointer
        /\ NoReveal /\ NoForms /\ NoBoot /\ NoProgress /\ NoMenu /\ NoFilter /\ NoPreloader

NextScroll ==
    \/ \E y \in ScrollOffsets : DirectScroll(y)
    \/ \E y \in ScrollOffsets : RafScrollEvent(y)
    \/ RafFrame

\* the scroll handler, either initScrollHandler
SpecScroll == InitScrollPage /\ [][NextScroll]_vars

\* the cursor loop of the first script, on a device with a fine pointer
InitCursorPage ==
    /\ InitPointer
    /\ ptrVariant = "first"
    /\ isTouchDevice = FALSE
    /\ NoNav /\ NoCarousel /\ NoCounter /\ NoObserver /\ NoTyping /\ NoTheme /\ NoRaf
    /\ NoReveal /\ NoForms /\ NoBoot /\ NoProgress /\ NoMenu /\ NoFilter /\ NoPreloader

NextCursor ==
    \/ \E x, y \in MouseCoords : MouseMove(x, y)
    \/ CursorFrame

SpecCursor == InitCursorPage /\ [][NextCursor]_vars

\* frames keep being delivered
SpecCursorFair == SpecCursor /\ WF_vars(CursorFrame)

InitPointerPage ==
    InitPointer /\ NoNav /\ NoCarousel /\ NoCounter /\ NoObserver /\ NoTyping /\ NoTheme /\ NoRaf
        /\ NoReveal /\ NoForms /\ NoBoot /\ NoProgress /\ NoMenu /\ NoFilter /\ NoPreloader

NextPointer ==
    \/ \E x, y \in MouseCoords : MouseMove(x, y)
    \/ CursorFrame
    \/ MouseOver
    \/ MouseOut
    \/ HeroMouseMove
    \/ ThrottleTimeout
    \/ HeroMouseLeave
    \/ MagneticMove
    \/ MagneticLeave
    \/ ClickRipple
    \/ RippleTimeout
    \/ CardTiltMove
    \/ CardTiltLeave
    \/ ServiceCardMove
    \/ ServiceCardLeave

\* the pointer effects of either script, on either kind of device
SpecPointer == InitPointerPage /\ [][NextPointer]_vars

InitRevealPage ==
    InitReveal /\ NoNav /\ NoCarousel /\ NoCounter /\ NoObserver /\ NoTyping /\ NoTheme /\ NoRaf
        /\ NoPointer /\ NoForms /\ NoBoot /\ NoProgress /\ NoMenu /\ NoFilter /\ NoPreloader

NextReveal ==
    \/ \E batch \in RevBatches : RevealCallback(batch)
    \/ RevealTimeout
    \/ RevTimePasses

\* the reveal observers of either script
SpecReveal == InitRevealPage /\ [][NextReveal]_vars

InitFormsPage ==
    InitForms /\ NoNav /\ NoCarousel /\ NoCounter /\ NoObserver /\ NoTyping /\ NoTheme /\ NoRaf
        /\ NoPointer /\ NoReveal /\ NoBoot /\ NoProgress /\ NoMenu /\ NoFilter /\ NoPreloader

NextForms ==
    \/ \E f \in FieldNames, v \in FieldValues : EditField(f, v)
    \/ \E v \in FieldValues : EditNewsEmail(v)
    \/ SubmitContact
    \/ SendTimeout
    \/ SubmitNewsletter
    \/ NoteTimeout
    \/ FormTimePasses

\* the contact form, the newsletter form and their notifications
SpecForms == InitFormsPage /\ [][NextForms]_vars

InitBootPage ==
    InitBoot /\ NoNav /\ NoCarousel /\ NoCounter /\ NoObserver /\ NoTyping /\ NoTheme /\ NoRaf
        /\ NoPointer /\ NoReveal /\ NoForms /\ NoProgress /\ NoMenu /\ NoFilter /\ NoPreloader

NextBoot ==
    \/ AddMainListener
    \/ ProjectFilters
    \/ initPreloader
    \/ runPreloader
    \/ initBackToTop
    \/ initThemeToggle
    \/ initTestimonialsSlider
    \/ initFunFactCounters
    \/ initNewsletter
    \/ initLazyImages
    \/ initSmoothAnchors
    \/ AddSectionsListener
    \/ DOMContentLoaded
    \/ MainListener
    \/ initLenis
    \/ initNavigation
    \/ initTypingEffect
    \/ initIntersectionObservers
    \/ initScrollHandler
    \/ initContactForm
    \/ initParticles
    \/ initMouseEffects
    \/ initScrollProgress
    \/ SectionsListener

\* the evaluation of the first script and the DOMContentLoaded that follows
SpecBoot == InitBootPage /\ [][NextBoot]_vars

InitProgressPage ==
    InitProgress /\ NoNav /\ NoCarousel /\ NoCounter /\ NoObserver /\ NoTyping /\ NoTheme
        /\ NoRaf /\ NoPointer /\ NoReveal /\ NoForms /\ NoBoot /\ NoMenu /\ NoFilter /\ NoPreloader

NextProgress ==
    \/ \E y \in ScrollOffsets : ProgressScroll(y)
    \/ ProgressThrottleTimeout
    \/ ProgressTimePasses

\* the scroll progress bar
SpecProgress == InitProgressPage /\ [][NextProgress]_vars

InitMenuPage ==
    InitMenu /\ NoNav /\ NoCarousel /\ NoCounter /\ NoObserver /\ NoTyping /\ NoTheme
        /\ NoRaf /\ NoPointer /\ NoReveal /\ NoForms /\ NoBoot /\ NoProgress /\ NoFilter /\ NoPreloader

NextMenu ==
    \/ ClickToggle
    \/ ClickOutside
    \/ ClickInsideMenu
    \/ \E key \in Keys : KeyDown(key)
    \/ ClickNavLink

\* the mobile nav menu of the first script
SpecMenu == InitMenuPage /\ [][NextMenu]_vars

InitFilterPage ==
    InitFilter /\ NoNav /\ NoCarousel /\ NoCounter /\ NoObserver /\ NoTyping /\ NoTheme
        /\ NoRaf /\ NoPointer /\ NoReveal /\ NoForms /\ NoBoot /\ NoProgress /\ NoMenu /\ NoPreloader

NextFilter ==
    \/ \E filter \in Filters : ClickFilter(filter)
    \/ HideTimeout
    \/ FilterFrame
    \/ FilterTimePasses

\* the project filters
SpecFilter == InitFilterPage /\ [][NextFilter]_vars

InitPreloaderPage ==
    InitPreloader /\ NoNav /\ NoCarousel /\ NoCounter /\ NoObserver /\ NoTyping /\ NoTheme
        /\ NoRaf /\ NoPointer /\ NoReveal /\ NoForms /\ NoBoot /\ NoProgress /\ NoMenu
        /\ NoFilter

NextPreloader ==
    \/ RunPreloader
    \/ \E k \in 0..(RandomSteps - 1) : PreloaderTick(k)
    \/ LoadedTimeout
    \/ FallbackTimeout
    \/ PreloaderTimePasses

\* the preloader
SpecPreloader == InitPreloaderPage /\ [][NextPreloader]_vars

(***************************************************************************)
(* Claims about navigation highlighting                                    *)
(***************************************************************************)

\* The sections whose bounds contain offset y: top-100 < y <= top-100+height.
SectionsAround(y) ==
    {i \in SectionIds :
        /\ sections[i].offsetTop - 100 < y
        /\ y <= sections[i].offsetTop - 100 + sections[i].offsetHeight}

\* C1: if some section's bounds contain the scroll offset, then after
\* updateActiveNavLink the active links are exactly the links whose href names
\* the last such section in iteration order, so all active links name one
\* section.
C1_LastContainingSectionIsActive ==
    (navOp = "scroll" /\ SectionsAround(lastScrollY) # {}) =>
        LET M == SectionsAround(lastScrollY)
            last == CHOOSE i \in M : \A j \in M : j <= i
        IN  /\ navActive = {l \in Links : linkHref(l) = Href(sections[last].id)}
            /\ \A l1, l2 \in navActive : linkHref(l1) = linkHref(l2)

\* C1 witness: the handler has run at an offset inside two overlapping
\* sections, and the links of the earlier one are not highlighted.
C1_Witness ==
    /\ navOp = "scroll"
    /\ Cardinality(SectionsAround(lastScrollY)) >= 2
    /\ navActive # {}
    /\ \E i \in SectionsAround(lastScrollY) : \A l \in navActive : linkHref(l) # Href(i)

\* C2: a scroll to an offset that no section's bounds contain leaves the
\* 'active' state of every nav link as it was before the call.
C2_NoMatchKeepsHighlight ==
    [][(navOp' = "scroll" /\ SectionsAround(scrollY') = {}) => navActive' = navActive]_vars

\* C2 witness: the handler has run at an offset outside every section and a
\* link is still highlighted.
C2_Witness ==
    /\ navOp = "scroll"
    /\ SectionsAround(lastScrollY) = {}
    /\ navActive # {}

(***************************************************************************)
(* Claims about the carousel                                               *)
(***************************************************************************)

\* C3: wrap law. For every slide count L >= 1 a next click at index L-1 sets
\* the index to 0 and a prev click at index 0 sets it to L-1; at any other
\* index next adds exactly 1 and prev subtracts exactly 1.
C3_WrapLaw ==
    [][cardCount >= 1 =>
        /\ carOp' = "next" =>
              currentIndex' = IF currentIndex = cardCount - 1 THEN 0 ELSE currentIndex + 1
        /\ carOp' = "prev" =>
              currentIndex' = IF currentIndex = 0 THEN cardCount - 1 ELSE currentIndex - 1
      ]_vars

\* C3 witness: a prev click has wrapped a three-card carousel to its last card.
C3_Witness ==
    /\ carOp = "prev"
    /\ cardCount = 3
    /\ currentIndex = 2
    /\ trackTransform = <<"-", 200>>

\* C4: with at least one card, currentIndex is an index of a card after any
\* sequence of clicks, swipes and autoplay ticks.
C4_IndexInRange ==
    cardCount >= 1 => currentIndex \in 0..(cardCount - 1)

\* C4 witness: a click on a dot whose position is no card's index.
C4_Witness ==
    /\ carOp = "dot"
    /\ cardCount >= 1
    /\ carArg >= cardCount
    /\ currentIndex = 0

\* C5: at most one interval timer created by startAutoPlay is live (stated
\* for a carousel that has cards).
C5_AtMostOneLiveInterval ==
    cardCount >= 1 => Cardinality(DOMAIN timers) <= 1

\* a step that is a manual transition: a prev, next or dot click, or a touchend
\* that completes a swipe
ManualTransition ==
    \/ carOp' \in {"prev", "next", "dot"}
    \/ carOp' = "touchend" /\ isDragging /\ Abs(startX - carArg') > 50

\* C6: a manual transition resets the autoplay cadence: right after it, the
\* next autoplay call is due in exactly 5000 ms (none earlier, and one then).
\* Stated for a carousel that has cards.
C6_ManualTransitionResetsCadence ==
    [][(cardCount >= 1 /\ ManualTransition) =>
          /\ DOMAIN timers' # {}
          /\ \A id \in DOMAIN timers' : timers'[id] = 5000
      ]_vars

\* C7: a touchend after a touchstart, with d = startX - endX, goes to the next
\* card if d > 50, to the previous card if d < -50, and leaves the index alone
\* if |d| <= 50; a touchend with no touchstart before it changes nothing.
C7_SwipeThreshold ==
    [][carOp' = "touchend" =>
        LET d == startX - carArg'
        IN  IF isDragging
            THEN /\ cardCount >= 1 =>
                       currentIndex' =
                           IF d > 50 THEN (currentIndex + 1) % cardCount
                           ELSE IF d < -50 THEN (currentIndex - 1) % cardCount
                           ELSE currentIndex
                 /\ (cardCount = 3 /\ currentIndex = 0 /\ d = 60) => currentIndex' = 1
                 /\ (cardCount = 3 /\ currentIndex = 0 /\ d = -60) => currentIndex' = 2
            ELSE UNCHANGED <<currentIndex, trackTransform, dotsActive, isDragging,
                             startX, autoPlayInterval, timers>>
      ]_vars

\* C7 witness: a left-to-right swipe of 60 px has taken a three-card carousel
\* to its last card.
C7_Witness ==
    /\ carOp = "touchend"
    /\ cardCount = 3
    /\ startX - carArg = -60
    /\ currentIndex = 2
    /\ ~isDragging

(***************************************************************************)
(* Claims about the counters                                               *)
(***************************************************************************)

\* C8: for every integer target N, when the animation has stopped the element
\* shows exactly N (animateCounter) or N in the locale's format followed by
\* '+' (animateFunCounter), whatever the rounding of the running value was.
C8_FinalValueIsTarget ==
    (~cntTimerLive /\ ~cntTarget.nan) =>
        /\ cntKind = "stat" => cntText = NumberToString(cntTarget.val)
        /\ cntKind = "fun" => cntText = ToLocaleString(cntTarget.val) \o <<"+">>
        /\ (cntKind = "stat" /\ cntTarget.val = 57) => cntText = <<"5", "7">>
        /\ (cntKind = "stat" /\ cntTarget.val = 1500) => cntText = <<"1", "5", "0", "0">>
        /\ (cntKind = "stat" /\ cntTarget.val = -3) => cntText = <<"-", "3">>
        /\ (cntKind = "fun" /\ cntTarget.val = 57) => cntText = <<"5", "7", "+">>
        /\ (cntKind = "fun" /\ cntTarget.val = 1500) =>
              cntText = <<"1", ",", "5", "0", "0", "+">>

\* C8 witness: an animation to 57 that stopped one callback late, its running
\* value having been rounded to just under 57 after 50 additions.
C8_Witness ==
    /\ ~cntTimerLive
    /\ cntKind = "stat"
    /\ cntTarget = Num(57)
    /\ cntCurrent = (CounterSteps + 1) * 57
    /\ cntErr < 0
    /\ cntText = <<"5", "7">>

\* C9: each observed counter element animates exactly once: whatever entries
\* an observer gets for an element, it calls the element's animate function
\* at most once, so at most one counter interval per element and observer.
C9_AnimatesOnce ==
    \A o \in Observers : \A e \in Elements : animCalls[o][e] <= 1

(***************************************************************************)
(* Claims about the typing effect                                          *)
(***************************************************************************)

\* a phrase is fully typed: the step typed its last character
FullyTyped ==
    /\ isDeleting
    /\ charIndex = Len(Texts[textIndex + 1])

\* C10: under an unbounded run of timer ticks the fully typed strings shown
\* are P[0], P[1], ..., P[len-1], P[0], ... in this order, each of them again
\* and again, and between two fully typed strings the text is deleted one
\* character at a time down to the empty string.
C10_TypesPhrasesCyclically ==
    /\ [](FullyTyped => typingText = Texts[((typedCount - 1) % Len(Texts)) + 1])
    /\ [][(~isDeleting /\ isDeleting') => sawEmpty]_vars
    /\ [][isDeleting =>
            /\ Len(typingText) >= 1
            /\ typingText' = SubSeq(typingText, 1, Len(typingText) - 1)
            /\ isDeleting' = (typingText' # <<>>)]_vars
    /\ \A i \in 1..Len(Texts) : []<>(FullyTyped /\ typingText = Texts[i])
    /\ []<>(typingText = <<>>)

\* C10 witness: the second phrase is fully typed, after the first was typed
\* and deleted down to the empty string.
C10_Witness ==
    /\ FullyTyped
    /\ typedCount = 2
    /\ typingText = Texts[2]
    /\ Len(typingText) = 14

(***************************************************************************)
(* Claims about the theme toggle                                           *)
(***************************************************************************)

\* C11: whatever value was persisted when the page was first opened (none,
\* 'light', 'dark'), a page that was loaded, had its toggle clicked exactly
\* twice and was loaded again shows the theme it showed before the two clicks.
C11_ToggleTwiceReloadRestores ==
    (themeOp = "reload" /\ Len(themePrevTrail) = 3) =>
        /\ bodyLight = themePrevTrail[1]
        /\ themeTrail = <<themePrevTrail[1]>>

\* C11 witness: the page was first opened with 'light' persisted, showed the
\* light theme, was clicked twice and loaded again, and shows the light theme.
C11_Witness ==
    /\ themeOp = "reload"
    /\ themeInitial = "light"
    /\ themeLoads = 2
    /\ themePrevTrail = <<TRUE, FALSE, TRUE>>
    /\ bodyLight

\* C12: after every click on the toggle the persisted value is 'light' if the
\* body has the class light-theme and 'dark' if it has not, and a reload after
\* any sequence of clicks shows the theme shown just before the reload.
C12_StoredMatchesShown ==
    /\ [][themeOp' = "click" =>
            themeStored' = IF bodyLight' THEN "light" ELSE "dark"]_vars
    /\ [][themeOp' = "reload" => bodyLight' = bodyLight]_vars

\* C12 witness: three clicks on a page opened with nothing persisted, then a
\* reload that shows the light theme the third click had set.
C12_Witness ==
    /\ themeOp = "reload"
    /\ themeInitial = "absent"
    /\ themePrevTrail = <<FALSE, TRUE, FALSE, TRUE>>
    /\ themeStored = "light"
    /\ bodyLight

(***************************************************************************)
(* Claims about the scroll handler                                         *)
(***************************************************************************)

\* C13: after each scroll signal the handler has processed (the listener
\* itself, or the frame callback it requested), the navbar has the class
\* 'scrolled' if and only if the offset is greater than 50: not at 0, not at
\* 50 itself, at 51, and not any more at a later 49.
C13_NavbarScrolledAbove50 ==
    [][navOp' \in {"scroll", "frame"} =>
        /\ navbarScrolled' = (scrollY' > 50)
        /\ scrollY' \in {0, 49, 50} => ~navbarScrolled'
        /\ scrollY' = 51 => navbarScrolled'
      ]_vars

\* C13 witness: a frame callback has processed offset 50 after the navbar had
\* the class, and the navbar has lost it.
C13_Witness ==
    /\ scrollVariant = "raf"
    /\ navOp = "frame"
    /\ scrollY = 50
    /\ scrollDirection = "up"
    /\ ~navbarScrolled

\* C14: in the frame-throttled handler at most one frame callback requested
\* by handleScroll is pending, and ticking is true exactly while one is.
C14_OneFramePending ==
    scrollVariant = "raf" =>
        /\ rafPending <= 1
        /\ ticking = (rafPending = 1)

\* C14 witness: a scroll event arrived while a frame callback was pending and
\* requested no second one.
C14_Witness ==
    /\ scrollVariant = "raf"
    /\ navOp = "dropped"
    /\ ticking
    /\ rafPending = 1
    /\ scrollY # lastScrollY

(***************************************************************************)
(* Claims about the pointer effects                                        *)
(***************************************************************************)

\* C15: every mousemove records the pointer position and requests a frame
\* only if the loop is not active; at most one updateAll frame callback is
\* pending, and cursorActive is true exactly while one is.
C15_OneCursorFramePending ==
    /\ [](cursorFrames <= 1 /\ cursorActive = (cursorFrames = 1))
    /\ [][ptrOp' = "mousemove" =>
            /\ <<mouseX', mouseY'>> = ptrArg'
            /\ cursorActive'
            /\ cursorFrames' = IF cursorActive THEN cursorFrames ELSE cursorFrames + 1
            /\ UNCHANGED <<cursorX, cursorY>>]_vars

\* C15 witness: a mousemove arrived while the loop was active, one frame is
\* pending, and the position recorded is the new one.
C15_Witness ==
    /\ ptrOp = "mousemove"
    /\ ptrEvents >= 2
    /\ cursorActive
    /\ cursorFrames = 1
    /\ cursorStyle # <<>>
    /\ <<mouseX, mouseY>> = <<0, MaxMouse * PxScale>>

\* both distances are under half a pixel
CursorClose ==
    /\ 2 * Abs(mouseX - cursorX) < PxScale
    /\ 2 * Abs(mouseY - cursorY) < PxScale

\* C16: a frame of the active loop requests the next frame unless, after its
\* easing step, the displayed position is within 0.5 of the raw position on
\* both axes, and only then it stops; so whenever the loop is inactive both
\* distances are under 0.5.
C16_StopsOnlyWhenClose ==
    /\ [](~cursorActive => CursorClose)
    /\ [][(ptrOp' = "frame" /\ cursorActive) =>
            /\ cursorActive' = ~CursorClose'
            /\ cursorFrames' = IF CursorClose' THEN 0 ELSE 1]_vars

\* C16 witness: the loop is still active after a frame that left one axis
\* within half a pixel and the other not.
C16_Witness ==
    /\ ptrOp = "frame"
    /\ cursorActive
    /\ cursorFrames = 1
    /\ mouseX = cursorX
    /\ 2 * Abs(mouseY - cursorY) >= PxScale

\* C17: once mousemoves have ceased and frames keep being delivered, the loop
\* becomes inactive, with no frame pending, and stays so; it only becomes
\* active by a mousemove.
C17_LoopTerminates ==
    /\ <>[](~cursorActive /\ cursorFrames = 0)
    /\ [][(~cursorActive /\ cursorActive') => ptrOp' = "mousemove"]_vars

\* C17 witness: the loop has stopped after the last mousemove, the cursor
\* having moved to within half a pixel of a pointer that is not at the origin.
C17_Witness ==
    /\ ptrEvents = MaxPtrEvents
    /\ ptrOp = "frame"
    /\ ~cursorActive
    /\ cursorFrames = 0
    /\ mouseX = MaxMouse * PxScale
    /\ cursorX # 0
    /\ cursorX # mouseX

\* C18: on a device whose pointer is coarse at initialization no pointer
\* event changes the cursor state, starts the cursor loop, creates a ripple
\* or writes a transform.
C18_CoarsePointerSkipsLayer ==
    isTouchDevice =>
        /\ <<mouseX, mouseY, cursorX, cursorY>> = <<0, 0, 0, 0>>
        /\ ~cursorActive
        /\ cursorFrames = 0
        /\ cursorStyle = <<>>
        /\ ripples = 0
        /\ ~hasGlow
        /\ \A el \in PtrElements : ptrStyle[el] = "unset"

(***************************************************************************)
(* Claims about the reveal observers                                       *)
(***************************************************************************)

\* the timeouts the last step has set
NewRevTimers == SubSeq(revTimers', Len(revTimers) + 1, Len(revTimers'))

\* C19: the container gets reveal classes only from a callback with an
\* intersecting entry for it; a callback with exit entries only changes no
\* class and sets no timeout; no reveal class is ever removed; the timeout of
\* item i is set to i times the per-item delay and runs when it is due, so of
\* the timeouts of one trigger the one of item i never runs before the one of
\* an item j < i.
C19_RevealOnEntryStaggered ==
    /\ [][\A el \in RevElements : revClasses[el] \subseteq revClasses'[el]]_vars
    /\ [][revClasses'[0] # revClasses[0] =>
            /\ revOp' = "callback"
            /\ \E k \in 1..Len(revBatch') :
                  revBatch'[k] = [target |-> 0, isIntersecting |-> TRUE]]_vars
    /\ [][(revOp' = "callback" /\ \A k \in 1..Len(revBatch') : ~revBatch'[k].isIntersecting) =>
            UNCHANGED <<revClasses, revTimers>>]_vars
    /\ [][revOp' = "callback" =>
            \A k \in 1..Len(NewRevTimers) :
                NewRevTimers[k].left =
                    NewRevTimers[k].item * (IF revVariant = "first" THEN 80 ELSE 150)]_vars
    /\ [][revOp' = "timeout" =>
            /\ revFired'[1].left = 0
            /\ "animate" \in revClasses'[revFired'[1].item + 1]
            /\ \A k \in 1..Len(revTimers') :
                  revTimers'[k].trig = revFired'[1].trig =>
                      revTimers'[k].item > revFired'[1].item]_vars

\* C19 witness: the timeout of the second item of a trigger has run, after
\* the one of the first, and the container has had an exit entry since.
C19_Witness ==
    /\ revOp = "callback"
    /\ revBatch = <<[target |-> 0, isIntersecting |-> FALSE]>>
    /\ revFired # <<>>
    /\ revFired[1].item = 1
    /\ revTriggers = 1
    /\ revTimers = <<>>
    /\ "animate" \in revClasses[1]
    /\ "animate" \in revClasses[2]
    /\ "visible" \in revClasses[0]

\* C20: once the container and its items are revealed, a callback with
\* intersecting entries for the container leaves every class set as it is,
\* and so does every timeout such an entry has set. Stated for a container
\* that has items.
C20_RevealIsIdempotent ==
    /\ [][(revOp' = "callback" /\ revItems >= 1 /\ AllRevealed(revClasses)
             /\ \A k \in 1..Len(revBatch') : revBatch'[k].target = 0) =>
            revClasses' = revClasses]_vars
    /\ [][(revOp' = "timeout" /\ revFired'[1].again) => revClasses' = revClasses]_vars

(***************************************************************************)
(* Claims about the forms                                                  *)
(***************************************************************************)

\* C21: a submission of the contact form with an empty name, email or message
\* shows an error notification and does nothing else: the button is not
\* disabled, its label and the fields stay as they are, no send timeout is set.
C21_EmptyFieldOnlyNotifies ==
    [][(frmOp' = "contact" /\ frmSubmits' = frmSubmits + 1
            /\ \E f \in FieldNames : fields[f] = "")
        => /\ note' = <<[id |-> noteSeq + 1, type |-> "error"]>>
           /\ noteSeq' = noteSeq + 1
           /\ UNCHANGED <<btnDisabled, btnLabel, fields, sendTimer, newsEmail, frmFault>>]_vars

C21_Witness ==
    /\ frmOp = "contact"
    /\ fields["name"] = "x" /\ fields["email"] = "" /\ fields["message"] = "x"
    /\ note # <<>> /\ note[1].type = "error" /\ note[1].id = noteSeq
    /\ ~btnDisabled /\ btnLabel = "original" /\ sendTimer = <<>>

\* C22: a submission of the newsletter form with an empty email shows a
\* notification.
C22_EmptyEmailNotifies ==
    [][(frmOp' = "newsletter" /\ frmSubmits' = frmSubmits + 1
            /\ hasNewsInput /\ newsEmail = "")
        => /\ note' # <<>>
           /\ note'[1].id = noteSeq + 1
           /\ noteSeq' = noteSeq + 1]_vars

(***************************************************************************)
(* Claims about the initialisation of the page                             *)
(***************************************************************************)

\* the initializers initAll calls after initLenis
AfterLenis == {InitAllCalls[i] : i \in 2..Len(InitAllCalls)}

Ran == {ran[i] : i \in 1..Len(ran)}

\* C23: if Lenis is not loaded or its construction throws, initLenis warns and
\* returns normally, State.lenis is null and no frame loop runs, and every
\* remaining initializer of initAll is called.
C23_LenisFailureIsContained ==
    /\ lenisOutcome # "ok" => ~lenisSet /\ ~lenisLoop /\ ~bootFault
    /\ (lenisOutcome # "ok" /\ "initLenis" \in Ran) => bootWarnings = 1
    /\ (lenisOutcome # "ok" /\ BootDone) => AfterLenis \subseteq Ran

C23_Witness ==
    /\ BootDone
    /\ lenisOutcome = "throws"
    /\ bootWarnings = 1
    /\ "initScrollProgress" \in Ran

\* the widgets whose root element may be absent
GuardedWidgets ==
    {"initTypingEffect", "initParticles", "initContactForm", "initNewsletter",
     "runPreloader", "initBackToTop", "initThemeToggle", "initTestimonialsSlider"}

\* every initializer of the page but initLenis and initPreloader, which only
\* passes on to runPreloader
Widgets ==
    ({ScriptCalls[i] : i \in 1..Len(ScriptCalls)} \cup AfterLenis
        \cup {"runPreloader", "sections"})
        \ {"addMainListener", "addSectionsListener", "initPreloader"}

\* the root elements the claim names for a widget; the other initializers are
\* taken with the elements their own guards name
RootsOf(fn) ==
    CASE fn = "initTypingEffect" -> {"typing-text"}
      [] fn = "initParticles" -> {"particles"}
      [] fn = "initContactForm" -> {"contact-form"}
      [] fn = "initNewsletter" -> {"newsletter-form"}
      [] fn = "runPreloader" -> {"preloader"}
      [] fn = "initBackToTop" -> {"back-to-top"}
      [] fn = "initThemeToggle" -> {"theme-toggle", "theme-icon"}
      [] fn = "initTestimonialsSlider" ->
            {"testimonial-track", "testimonial-prev", "testimonial-next", "testimonial-dots"}
      [] fn = "initMouseEffects" -> IF bootTouch THEN {"fine pointer"} ELSE {}
      [] OTHER -> Requires(fn)

C25_NoHandlerFaults == frmFault = FALSE

(***************************************************************************)
(* Claims about the scroll progress bar                                    *)
(***************************************************************************)

\* C26: every scroll signal sets the scale of the progress bar to that
\* signal's offset / (scrollHeight - innerHeight), so that once a scroll signal
\* has been delivered the scale is the current offset over the scroll range.
C26_ProgressShowsLastOffset ==
    prgScrolls > 0 => prgScale.num * ScrollRange = prgScrollY * prgScale.den

(***************************************************************************)
(* Claims about the typing effect, continued                               *)
(***************************************************************************)

\* C27: in every state of the typing effect 0 <= charIndex <= the length of
\* the current phrase, 0 <= textIndex < the number of phrases, the text shown
\* is the prefix of the current phrase of length charIndex, and exactly one
\* type() timeout is pending.
C27_TypingInvariant ==
    /\ textIndex >= 0 /\ textIndex < Len(Texts)
    /\ charIndex >= 0 /\ charIndex <= Len(Texts[textIndex + 1])
    /\ typingText = SubSeq(Texts[textIndex + 1], 1, charIndex)
    /\ typePending = 1
    /\ typeDelay \in {TypeSpeed, DeleteSpeed, PauseFull, PauseEmpty}

\* the last phrase has been deleted and the first one is due again
C27_Witness ==
    /\ textIndex = 0
    /\ charIndex = 0
    /\ typingText = <<>>
    /\ typeDelay = PauseEmpty
    /\ typePending = 1

(***************************************************************************)
(* Claims about the counters, continued                                    *)
(***************************************************************************)

\* C28: while an animation to a target N >= 0 runs, the value shown after the
\* k-th tick is floor(k * N / S) and is at most N (cntCurrent is k * N).
C28_ShowsFloorOfExactValue ==
    (cntTimerLive /\ ~cntTarget.nan /\ cntTarget.val >= 0 /\ cntCurrent > 0) =>
        /\ cntCurrent \div Steps(cntKind) <= cntTarget.val
        /\ cntKind = "stat" => cntText = NumberToString(cntCurrent \div Steps(cntKind))
        /\ cntKind = "fun" => cntText = ToLocaleString(cntCurrent \div Steps(cntKind))

\* C29: every counter animation terminates: whatever parseInt(dataset.count)
\* gave (a positive, zero or negative integer, or NaN for an absent or
\* non-numeric attribute), the interval is cleared after finitely many ticks.
C29_AnimationTerminates == <>(~cntTimerLive)

(***************************************************************************)
(* Claims about the scroll handler, continued                              *)
(***************************************************************************)

\* C30: after each processed scroll signal (a call of the first handleScroll,
\* a frame callback of the second) State.lastScrollY is the current offset and
\* State.scrollDirection is 'down' if the offset is above the previous
\* lastScrollY and 'up' if it is below; no other step writes either field.
C30_DirectionFollowsScroll ==
    [][IF navOp' \in {"scroll", "frame"}
       THEN /\ lastScrollY' = scrollY'
            /\ scrollY' > lastScrollY => scrollDirection' = "down"
            /\ scrollY' < lastScrollY => scrollDirection' = "up"
       ELSE UNCHANGED <<lastScrollY, scrollDirection>>]_vars

(***************************************************************************)
(* Claims about Utils.throttle                                             *)
(***************************************************************************)

\* C31: the first call of a throttled function calls func at once; a call made
\* less than limit ms after a call that called func is dropped, and nothing
\* calls func later on its behalf; a call made once the window of limit ms is
\* over calls func at once again.  (A call at the very moment the window ends
\* falls on either side.)
C31_ThrottleLeadingEdgeOnly ==
    /\ [](prgScrolls = 0 => ~prgInThrottle)
    /\ [][prgScrolls' = prgScrolls + 1 =>
            /\ prgTimer > 0 => UNCHANGED <<prgInvoked, prgScale, prgInThrottle, prgTimer>>
            /\ ~prgInThrottle =>
                  /\ prgInvoked' = prgInvoked + 1
                  /\ prgScale' = Progress(prgScrollY')
                  /\ prgTimer' = ProgressLimit]_vars
    /\ [][prgScrolls' = prgScrolls => UNCHANGED <<prgInvoked, prgScale>>]_vars
    /\ [][prgInvoked' # prgInvoked => prgTimer = 0]_vars

\* a call was dropped inside the window of the first, and the third call,
\* made after the window, has called func again
C31_Witness ==
    /\ prgOp = "scroll"
    /\ prgScrolls = 3
    /\ prgInvoked = 2
    /\ prgTimer = ProgressLimit

(***************************************************************************)
(* Claims about the frame-throttled scroll handler, continued              *)
(***************************************************************************)

\* C32: in the frame-throttled handler every scroll event leaves a frame
\* callback pending, and once no frame callback is pending ticking is false,
\* State.lastScrollY is the current offset and the navbar carries 'scrolled'
\* exactly if that offset is above 50.
C32_FramesCatchUp ==
    scrollVariant = "raf" =>
        /\ navOp \in {"event", "dropped"} => rafPending > 0 /\ ticking
        /\ rafPending = 0 =>
              /\ ~ticking
              /\ lastScrollY = scrollY
              /\ navbarScrolled = (scrollY > NavbarThreshold)

\* the last frame callback has run after scroll events and has read the
\* offset 51
C32_Witness ==
    /\ scrollVariant = "raf"
    /\ navOp = "frame"
    /\ rafPending = 0
    /\ scrollY = NavbarThreshold + 1
    /\ lastScrollY = scrollY
    /\ navbarScrolled
    /\ ~ticking

(***************************************************************************)
(* Claims about the mobile nav menu                                        *)
(***************************************************************************)

\* C33: on a page with the toggle and the menu, the toggle carries 'active'
\* exactly if the menu does; a click on the toggle flips the open state; after
\* a click outside, an Escape press or a click on a nav link the menu is
\* closed.
C33_ToggleAndMenuAgree ==
    /\ []((hasNavToggle /\ hasNavMenu) => toggleActive = menuActive)
    /\ [][(hasNavToggle /\ hasNavMenu) =>
            /\ mnuOp' = "toggle" /\ mnuEvents' # mnuEvents => menuActive' = ~menuActive
            /\ mnuOp' \in {"outside", "Escape", "link"} /\ mnuEvents' # mnuEvents =>
                  ~menuActive' /\ ~toggleActive']_vars

\* a click on the toggle has opened the menu, and the click listener of the
\* document has left it open
C33_Witness ==
    /\ hasNavToggle /\ hasNavMenu
    /\ mnuOp = "toggle"
    /\ mnuEvents = 1
    /\ menuActive /\ toggleActive

(***************************************************************************)
(* Claims about the notifications                                          *)
(***************************************************************************)

\* C34: at most one notification is in the document; a call of
\* showNotification leaves exactly the new one; a removal timeout removes no
\* notification but the one it was set for; and a notification in the
\* document has its own timeout of 4000 ms still pending, so it is removed
\* no later than 4000 ms after it was shown.
C34_OneNotificationAtATime ==
    /\ [](Len(note) <= 1)
    /\ [](\A k \in 1..Len(note) :
            /\ note[k].id \in DOMAIN noteTimers
            /\ noteTimers[note[k].id] \in 0..NoteDelay)
    /\ [][noteSeq' # noteSeq =>
            /\ Len(note') = 1 /\ note'[1].id = noteSeq'
            /\ noteTimers'[noteSeq'] = NoteDelay]_vars
    /\ [][(frmOp' = "removed" /\ noteSeq' = noteSeq) =>
            \A k \in 1..Len(note) :
                \/ \E j \in 1..Len(note') : note'[j] = note[k]
                \/ /\ noteTimers[note[k].id] = 0
                   /\ note[k].id \notin DOMAIN noteTimers']_vars

\* the timeout of a replaced notification has run and the newer notification
\* is still in the document
C34_Witness ==
    /\ frmOp = "removed"
    /\ noteSeq = 2
    /\ Len(note) = 1
    /\ note[1].id = 2
    /\ 1 \notin DOMAIN noteTimers
    /\ noteTimers[2] > 0

(***************************************************************************)
(* Claims about the project filters                                        *)
(***************************************************************************)

\* C35: once a filter button has been clicked and no timeout and no frame
\* callback is pending, exactly the button clicked last is active, and a card
\* has display 'none' exactly if it does not match that button's filter.
C35_CardsMatchLastFilter ==
    (fltClicks > 0 /\ hideTimers = <<>> /\ showFrames = {}) =>
        /\ fltActive = {fltLast}
        /\ \A c \in Cards : (cardDisplay[c] = "none") <=> ~MatchesFilter(fltLast, c)

(***************************************************************************)
(* Claims about the preloader                                              *)
(***************************************************************************)

\* the fallback timeout has run
FallbackFired == plStarted /\ hasPreloader /\ plFallback = -1

\* C36: with #preloader in the page, the element carries 'loaded' at the
\* latest FallbackDelay ms after runPreloader ran (until then the fallback
\* timeout is pending and due at that moment); the class is never removed;
\* the progress never decreases and never exceeds 100; and no interval is
\* live once the progress is 100 or the fallback has run.
C36_LoadedWithinFallbackDelay ==
    /\ []((plStarted /\ hasPreloader /\ ~plLoaded) =>
            plFallback >= 0 /\ plElapsed + plFallback = FallbackDelay)
    /\ []((hasPreloader /\ plElapsed > FallbackDelay) => plLoaded)
    /\ [][plLoaded => plLoaded']_vars
    /\ [][plProgress' >= plProgress]_vars
    /\ [](plProgress <= Full)
    /\ []((plProgress >= Full \/ FallbackFired) => plInterval = -1)

\* the progress completed at the tenth tick and its timeout set the class,
\* 2400 ms after runPreloader ran
C36_Witness ==
    /\ hasPreloader /\ plOp = "loaded" /\ plLoaded /\ plProgress = Full
    /\ plElapsed = 10 * TickDelay + LoadedDelay /\ plFallback > 0

\* the progress never completed and the fallback timeout set the class
C36_WitnessFallback ==
    /\ hasPreloader /\ plOp = "fallback" /\ plLoaded /\ plProgress < Full
    /\ plElapsed = FallbackDelay

=============================================================================
